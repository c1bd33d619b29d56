------------------------------ MODULE Rewards ------------------------------
(***************************************************************************)
(* Bounty rewards and their payout through Stripe (app/actions/rewards.ts, *)
(* lib/stripe/client.ts, migrations 001, 017 and 018).                     *)
(*                                                                         *)
(* Every server action runs in its own request.  Each awaited statement is *)
(* a transaction of its own, so whatever happens between two awaits of one *)
(* request may be interleaved with any other request: each step between    *)
(* two awaits that touch shared state is one action of this module.        *)
(*                                                                         *)
(* A transfer is the set of rewards it pays: the idempotency key of        *)
(* markRewardPaid is "pool:" followed by the sorted reward ids, so Stripe  *)
(* holds at most one transfer per set.                                     *)
(***************************************************************************)
EXTENDS Naturals, FiniteSets, FiniteSetsExt

CONSTANTS
    Reward,          \* rewards (one per submission: unique(submission_id))
    Owner,           \* organization owners, the human approvers
    Payee,           \* a researcher in one currency
    Program,         \* bug bounty programs
    OwnerOf,         \* the owner of the organization a reward belongs to
    PayeeOf,         \* the researcher and currency of a reward
    ProgramOf,       \* the program of the reward's submission
    Amount,          \* rewards.amount, immutable once proposed
    SplitRewards,    \* rewards that have reward_splits rows
    Threshold,       \* profiles.minimum_payout_threshold (default 50)
    MaxRetries,      \* MAX_PAYOUT_RETRIES
    Call,            \* concurrent requests running markRewardPaid or a batch
    MaxClicks,       \* bound: payout requests started in one behaviour
    NoOne,           \* null in rewards.approved_by
    NoReward,        \* a request that is at no reward
    Hazards          \* what the environment may do, see HazardKinds

HazardKinds == {"overlap",      \* two payout requests in flight at once
                "lost_answer",  \* Stripe made the transfer, the answer is lost
                "db_error",     \* a database read or update fails
                "crash",        \* the request dies between two awaits
                "stale_page",   \* approve or decline from an outdated page
                "direct_sql"}   \* rows updated without going through rewards.ts

ASSUME RewardsAssumption ==
    /\ OwnerOf \in [Reward -> Owner]
    /\ PayeeOf \in [Reward -> Payee]
    /\ ProgramOf \in [Reward -> Program]
    /\ Amount \in [Reward -> Nat \ {0}]
    /\ SplitRewards \subseteq Reward
    /\ Threshold \in Nat
    /\ MaxRetries \in Nat
    /\ MaxClicks \in Nat
    /\ NoOne \notin Owner
    /\ NoReward \notin Reward
    /\ Hazards \subseteq HazardKinds

ASSUME RewardsFinite == IsFiniteSet(Reward)

VARIABLES
    accepted,      \* rewards whose submission is accepted
    status,        \* rewards.status, "none" before the row exists
    approvedBy,    \* rewards.approved_by
    payoutStatus,  \* rewards.payout_status
    retryCount,    \* rewards.payout_retry_count
    held,          \* rewards.held_for_threshold
    transferId,    \* rewards.stripe_transfer_id, {} for null
    totalPaid,     \* programs.total_paid
    connected,     \* payees whose profile says payouts are enabled
    transfers,     \* the transfers Stripe has made
    pc,            \* where each payout request is
    batch,         \* the ids batchPayRewards has still to visit
    row,           \* the reward the request is at
    pool,          \* poolable: the rewards it pays together
    todo,          \* pooled rewards still to credit or to count
    seen,          \* the counter values it last read
    clicks         \* payout requests started so far

rowVars    == <<status, approvedBy, payoutStatus, retryCount, held, transferId>>
callVars   == <<pc, batch, row, pool, todo, seen>>
vars == <<accepted, rowVars, totalPaid, connected, transfers, callVars, clicks>>

\* The enum reward_status.
RewardStatus == {"pending", "approved", "paid", "declined"}

NoTransfer == {}
Unread == [r \in Reward |-> 0]

\* The sum poolable.reduce((sum, r) => sum + r.amount, 0).
PoolTotal(S) == MapThenSumSet(LAMBDA r : Amount[r], S)

\* Where a request is: what it awaits next.
Steps == {"idle", "next", "checked", "hold", "mark", "transfer", "sent",
          "credit", "creditWrite", "refused", "counts", "bump"}

Init ==
    /\ accepted = {}
    /\ status = [r \in Reward |-> "none"]
    /\ approvedBy = [r \in Reward |-> NoOne]
    /\ payoutStatus = [r \in Reward |-> "not_started"]
    /\ retryCount = [r \in Reward |-> 0]
    /\ held = [r \in Reward |-> FALSE]
    /\ transferId = [r \in Reward |-> NoTransfer]
    /\ totalPaid = [p \in Program |-> 0]
    /\ connected \in SUBSET Payee
    /\ transfers = {}
    /\ pc = [c \in Call |-> "idle"]
    /\ batch = [c \in Call |-> {}]
    /\ row = [c \in Call |-> NoReward]
    /\ pool = [c \in Call |-> {}]
    /\ todo = [c \in Call |-> {}]
    /\ seen = [c \in Call |-> Unread]
    /\ clicks = 0

(***************************************************************************)
(* What surrounds the payout: triage, the approval screen, Stripe Connect. *)
(***************************************************************************)

\* Mutant: the trigger looks at approvals only, not at payments.
EnforceHumanApprovalMut(newStatus, newApprover) ==
    newStatus = "approved" => newApprover # NoOne

\* The trigger enforce_human_reward_approval: the row an insert or update
\* would leave behind is refused unless a human approver is on it.
EnforceHumanApproval(newStatus, newApprover) ==
    newStatus \in {"approved", "paid"} => newApprover # NoOne

\* A submission's status changes; only proposeReward ever reads it again.
TriageDecision(r) ==
    /\ status[r] = "none"
    /\ accepted' = IF r \in accepted THEN accepted \ {r} ELSE accepted \union {r}
    /\ UNCHANGED <<rowVars, totalPaid, connected, transfers, callVars, clicks>>

ProposeReward(r) ==
    /\ r \in accepted
    /\ status[r] = "none"
    /\ status' = [status EXCEPT ![r] = "pending"]
    /\ UNCHANGED <<accepted, approvedBy, payoutStatus, retryCount, held,
                   transferId, totalPaid, connected, transfers, callVars, clicks>>

\* The buttons are drawn for pending rewards only, but from the page as it
\* was loaded: the actions themselves never look at the current status.
ButtonShown(r) == status[r] = "pending" \/ "stale_page" \in Hazards

ApproveReward(r) ==
    /\ status[r] # "none"
    /\ ButtonShown(r)
    /\ EnforceHumanApproval("approved", OwnerOf[r])
    /\ status' = [status EXCEPT ![r] = "approved"]
    /\ approvedBy' = [approvedBy EXCEPT ![r] = OwnerOf[r]]
    /\ UNCHANGED <<accepted, payoutStatus, retryCount, held, transferId,
                   totalPaid, connected, transfers, callVars, clicks>>

DeclineReward(r) ==
    /\ status[r] # "none"
    /\ ButtonShown(r)
    /\ status' = [status EXCEPT ![r] = "declined"]
    /\ UNCHANGED <<accepted, approvedBy, payoutStatus, retryCount, held,
                   transferId, totalPaid, connected, transfers, callVars, clicks>>

\* The row level security policy lets an organization owner (and the service
\* role anything) write any column of a reward; the trigger still applies.
DirectUpdate(r) ==
    /\ "direct_sql" \in Hazards
    /\ status[r] # "none"
    /\ \E s \in RewardStatus, u \in Owner \union {NoOne} :
          /\ EnforceHumanApproval(s, u)
          /\ status' = [status EXCEPT ![r] = s]
          /\ approvedBy' = [approvedBy EXCEPT ![r] = u]
    /\ UNCHANGED <<accepted, payoutStatus, retryCount, held, transferId,
                   totalPaid, connected, transfers, callVars, clicks>>

\* refreshStripeStatus copies whatever Stripe says now into the profile.
RefreshStripeStatus(p) ==
    /\ connected' = IF p \in connected THEN connected \ {p}
                                       ELSE connected \union {p}
    /\ UNCHANGED <<accepted, rowVars, totalPaid, transfers, callVars, clicks>>

(***************************************************************************)
(* markRewardPaid, one action per await; batchPayRewards runs it for each  *)
(* id in turn and swallows what it throws, a single click is a batch of 1. *)
(***************************************************************************)

Idle(c) == pc[c] = "idle"

\* supabase-js returns { error } instead of throwing, and markRewardPaid
\* looks at none of them: it carries on after a failed update, and a failed
\* read looks like a table without rows.
DbError == "db_error" \in Hazards

\* An owner clicks "Pay via Stripe" on one of the rewards the dashboard
\* lists (row level security shows the owner's own), or "Pay all approved".
Click(c, S) ==
    /\ Idle(c)
    /\ clicks < MaxClicks
    /\ "overlap" \in Hazards \/ \A d \in Call : Idle(d)
    /\ S # {}
    /\ \A r \in S : status[r] # "none"
    /\ \E u \in Owner : \A r \in S : OwnerOf[r] = u
    /\ pc' = [pc EXCEPT ![c] = "next"]
    /\ batch' = [batch EXCEPT ![c] = S]
    /\ clicks' = clicks + 1
    /\ UNCHANGED <<accepted, rowVars, totalPaid, connected, transfers,
                   row, pool, todo, seen>>

\* The early returns of markRewardPaid on the row it has read.
Payable(r) ==
    /\ status[r] = "approved"
    /\ retryCount[r] < MaxRetries
    /\ r \notin SplitRewards \/ DbError
    /\ PayeeOf[r] \in connected

ReadReward(c) == \E r \in batch[c] :
    /\ pc[c] = "next"
    /\ batch' = [batch EXCEPT ![c] = @ \ {r}]
    /\ \/ /\ Payable(r)
          /\ pc' = [pc EXCEPT ![c] = "checked"]
          /\ row' = [row EXCEPT ![c] = r]
       \/ /\ ~Payable(r) \/ DbError
          /\ UNCHANGED <<pc, row>>
    /\ UNCHANGED <<accepted, rowVars, totalPaid, connected, transfers,
                   pool, todo, seen, clicks>>

\* Mutant: the query forgets .eq("status", "approved").
EligibleAnyStatus(r) == {q \in Reward : /\ status[q] # "none"
                                        /\ OwnerOf[q] = OwnerOf[r]
                                        /\ PayeeOf[q] = PayeeOf[r]}

\* Mutant: the query asks for "not pending, not declined" instead.
EligibleWithPaid(r) == {q \in Reward : /\ status[q] \in {"approved", "paid"}
                                       /\ OwnerOf[q] = OwnerOf[r]
                                       /\ PayeeOf[q] = PayeeOf[r]}

\* Mutant: the query forgets .eq("currency", reward.currency).
EligibleAnyPayee(r) == {q \in Reward : /\ status[q] = "approved"
                                       /\ OwnerOf[q] = OwnerOf[r]}

\* The approved rewards of the same payee that the owner may read, whatever
\* their payout_status and retry count are.
EligibleRewards(r) == {q \in Reward : /\ status[q] = "approved"
                                      /\ OwnerOf[q] = OwnerOf[r]
                                      /\ PayeeOf[q] = PayeeOf[r]}

\* Mutant: the filter on the rewards with splits is forgotten.
PoolableWithSplits(r) == {EligibleRewards(r)}

\* What poolable may come out as: without the split rewards, or, when one
\* of the two queries fails, empty or with them.
Poolable(r) ==
    {EligibleRewards(r) \ SplitRewards}
        \union (IF DbError THEN {{}, EligibleRewards(r)} ELSE {})

ReadPool(c) ==
    /\ pc[c] = "checked"
    /\ \E P \in Poolable(row[c]) :
          /\ pool' = [pool EXCEPT ![c] = P]
          /\ pc' = [pc EXCEPT ![c] =
                       IF PoolTotal(P) < Threshold THEN "hold" ELSE "mark"]
    /\ row' = [row EXCEPT ![c] = NoReward]
    /\ UNCHANGED <<accepted, rowVars, totalPaid, connected, transfers,
                   batch, todo, seen, clicks>>

Hold(c) ==
    /\ pc[c] = "hold"
    /\ \/ held' = [r \in Reward |-> r \in pool[c] \/ held[r]]
       \/ DbError /\ UNCHANGED held
    /\ pc' = [pc EXCEPT ![c] = "next"]
    /\ pool' = [pool EXCEPT ![c] = {}]
    /\ UNCHANGED <<accepted, status, approvedBy, payoutStatus, retryCount,
                   transferId, totalPaid, connected, transfers, batch, row,
                   todo, seen, clicks>>

\* Mutant: the update writes a status the check constraint does not list.
MarkProcessingBadStatus(c) ==
    /\ pc[c] = "mark"
    /\ payoutStatus' = [r \in Reward |->
                           IF r \in pool[c] THEN "approved" ELSE payoutStatus[r]]
    /\ pc' = [pc EXCEPT ![c] = "transfer"]
    /\ UNCHANGED <<accepted, status, approvedBy, retryCount, held, transferId,
                   totalPaid, connected, transfers, batch, row, pool, todo,
                   seen, clicks>>

MarkProcessing(c) ==
    /\ pc[c] = "mark"
    /\ \/ payoutStatus' = [r \in Reward |->
                IF r \in pool[c] THEN "processing" ELSE payoutStatus[r]]
       \/ DbError /\ UNCHANGED payoutStatus
    /\ pc' = [pc EXCEPT ![c] = "transfer"]
    /\ UNCHANGED <<accepted, status, approvedBy, retryCount, held, transferId,
                   totalPaid, connected, transfers, batch, row, pool, todo,
                   seen, clicks>>

(***************************************************************************)
(* createTransfer.  Stripe makes the transfer of a key it has not seen and *)
(* answers a key it has seen with the transfer it made; it may refuse; and *)
(* the answer may be lost after the transfer was made.                     *)
(***************************************************************************)

StripeTransfers(c) ==
    /\ pc[c] = "transfer"
    /\ transfers' = transfers \union {pool[c]}
    /\ \/ pc' = [pc EXCEPT ![c] = "sent"]
       \/ /\ "lost_answer" \in Hazards
          /\ pc' = [pc EXCEPT ![c] = "refused"]
    /\ UNCHANGED <<accepted, rowVars, totalPaid, connected, batch, row, pool,
                   todo, seen, clicks>>

\* Mutant: an error from Stripe is taken for success.
StripeRefusesUnnoticed(c) ==
    /\ pc[c] = "transfer"
    /\ pc' = [pc EXCEPT ![c] = "sent"]
    /\ UNCHANGED <<accepted, rowVars, totalPaid, connected, transfers, batch,
                   row, pool, todo, seen, clicks>>

StripeRefuses(c) ==
    /\ pc[c] = "transfer"
    /\ pc' = [pc EXCEPT ![c] = "refused"]
    /\ UNCHANGED <<accepted, rowVars, totalPaid, connected, transfers, batch,
                   row, pool, todo, seen, clicks>>

\* One unconditional update of the whole pool, which the trigger may reject.
RecordPaid(c) ==
    /\ pc[c] = "sent"
    /\ \/ /\ \A r \in pool[c] : EnforceHumanApproval("paid", approvedBy[r])
          /\ status' = [r \in Reward |->
                IF r \in pool[c] THEN "paid" ELSE status[r]]
          /\ payoutStatus' = [r \in Reward |->
                IF r \in pool[c] THEN "succeeded" ELSE payoutStatus[r]]
          /\ transferId' = [r \in Reward |->
                IF r \in pool[c] THEN pool[c] ELSE transferId[r]]
          /\ held' = [r \in Reward |-> r \notin pool[c] /\ held[r]]
       \/ /\ \/ DbError
             \/ \E r \in pool[c] : ~EnforceHumanApproval("paid", approvedBy[r])
          /\ UNCHANGED <<status, payoutStatus, transferId, held>>
    /\ pc' = [pc EXCEPT ![c] = "credit"]
    /\ todo' = [todo EXCEPT ![c] = pool[c]]
    /\ UNCHANGED <<accepted, approvedBy, retryCount, totalPaid, connected,
                   transfers, batch, row, pool, seen, clicks>>

\* incrementProgramTotalPaid: read the program's total ...
CreditRead(c) == \E r \in todo[c] :
    /\ pc[c] = "credit"
    /\ \/ /\ row' = [row EXCEPT ![c] = r]
          /\ seen' = [seen EXCEPT ![c][r] = totalPaid[ProgramOf[r]]]
          /\ pc' = [pc EXCEPT ![c] = "creditWrite"]
          /\ UNCHANGED todo
       \/ /\ DbError
          /\ todo' = [todo EXCEPT ![c] = @ \ {r}]
          /\ UNCHANGED <<pc, row, seen>>
    /\ UNCHANGED <<accepted, rowVars, totalPaid, connected, transfers, batch,
                   pool, clicks>>

\* Mutant: every pooled reward credits the whole pool.
CreditWriteWholePool(c) ==
    /\ pc[c] = "creditWrite"
    /\ totalPaid' = [totalPaid EXCEPT ![ProgramOf[row[c]]] =
                        seen[c][row[c]] + PoolTotal(pool[c])]
    /\ todo' = [todo EXCEPT ![c] = @ \ {row[c]}]
    /\ pc' = [pc EXCEPT ![c] = "credit"]
    /\ row' = [row EXCEPT ![c] = NoReward]
    /\ seen' = [seen EXCEPT ![c] = Unread]
    /\ UNCHANGED <<accepted, rowVars, connected, transfers, batch, pool, clicks>>

\* ... and, a round trip later, write the sum.
CreditWrite(c) ==
    /\ pc[c] = "creditWrite"
    /\ \/ totalPaid' = [totalPaid EXCEPT ![ProgramOf[row[c]]] =
                           seen[c][row[c]] + Amount[row[c]]]
       \/ DbError /\ UNCHANGED totalPaid
    /\ todo' = [todo EXCEPT ![c] = @ \ {row[c]}]
    /\ pc' = [pc EXCEPT ![c] = "credit"]
    /\ row' = [row EXCEPT ![c] = NoReward]
    /\ seen' = [seen EXCEPT ![c] = Unread]
    /\ UNCHANGED <<accepted, rowVars, connected, transfers, batch, pool, clicks>>

(***************************************************************************)
(* The catch block: mark the pool failed, then read the retry counts and   *)
(* write each of them back plus one.                                       *)
(***************************************************************************)

\* Mutant: the catch block leaves payout_status as it was.
RecordFailedLeavesStatus(c) ==
    /\ pc[c] = "refused"
    /\ pc' = [pc EXCEPT ![c] = "counts"]
    /\ UNCHANGED <<accepted, rowVars, totalPaid, connected, transfers, batch,
                   row, pool, todo, seen, clicks>>

RecordFailed(c) ==
    /\ pc[c] = "refused"
    /\ \/ payoutStatus' = [r \in Reward |->
                IF r \in pool[c] THEN "failed" ELSE payoutStatus[r]]
       \/ DbError /\ UNCHANGED payoutStatus
    /\ pc' = [pc EXCEPT ![c] = "counts"]
    /\ UNCHANGED <<accepted, status, approvedBy, retryCount, held, transferId,
                   totalPaid, connected, transfers, batch, row, pool, todo,
                   seen, clicks>>

ReadCounts(c) ==
    /\ pc[c] = "counts"
    /\ \/ /\ seen' = [seen EXCEPT ![c] = [r \in Reward |->
                       IF r \in pool[c] THEN retryCount[r] ELSE 0]]
          /\ todo' = [todo EXCEPT ![c] = pool[c]]
       \/ DbError /\ UNCHANGED <<seen, todo>>
    /\ pc' = [pc EXCEPT ![c] = "bump"]
    /\ UNCHANGED <<accepted, rowVars, totalPaid, connected, transfers, batch,
                   row, pool, clicks>>

BumpRetryCount(c) == \E r \in todo[c] :
    /\ pc[c] = "bump"
    /\ \/ retryCount' = [retryCount EXCEPT ![r] = seen[c][r] + 1]
       \/ DbError /\ UNCHANGED retryCount
    /\ todo' = [todo EXCEPT ![c] = @ \ {r}]
    /\ UNCHANGED <<accepted, status, approvedBy, payoutStatus, held, transferId,
                   totalPaid, connected, transfers, pc, batch, row, pool, seen,
                   clicks>>

\* markRewardPaid returns or throws, the batch goes on to its next id.
Settled(c) ==
    /\ pc[c] \in {"credit", "bump"}
    /\ todo[c] = {}
    /\ pc' = [pc EXCEPT ![c] = "next"]
    /\ pool' = [pool EXCEPT ![c] = {}]
    /\ seen' = [seen EXCEPT ![c] = Unread]
    /\ UNCHANGED <<accepted, rowVars, totalPaid, connected, transfers, batch,
                   row, todo, clicks>>

Finish(c) ==
    /\ pc[c] = "next"
    /\ batch[c] = {}
    /\ pc' = [pc EXCEPT ![c] = "idle"]
    /\ UNCHANGED <<accepted, rowVars, totalPaid, connected, transfers, batch,
                   row, pool, todo, seen, clicks>>

\* The request dies: a deployment, a time limit, an instance recycled.
Crash(c) ==
    /\ "crash" \in Hazards
    /\ ~Idle(c)
    /\ pc' = [pc EXCEPT ![c] = "idle"]
    /\ batch' = [batch EXCEPT ![c] = {}]
    /\ row' = [row EXCEPT ![c] = NoReward]
    /\ pool' = [pool EXCEPT ![c] = {}]
    /\ todo' = [todo EXCEPT ![c] = {}]
    /\ seen' = [seen EXCEPT ![c] = Unread]
    /\ UNCHANGED <<accepted, rowVars, totalPaid, connected, transfers, clicks>>

RequestStep(c) ==
    \/ ReadReward(c) \/ ReadPool(c) \/ Hold(c) \/ MarkProcessing(c)
    \/ StripeTransfers(c) \/ StripeRefuses(c)
    \/ RecordPaid(c) \/ CreditRead(c) \/ CreditWrite(c)
    \/ RecordFailed(c) \/ ReadCounts(c) \/ BumpRetryCount(c)
    \/ Settled(c) \/ Finish(c)

Next ==
    \/ \E r \in Reward : \/ TriageDecision(r) \/ ProposeReward(r)
                         \/ ApproveReward(r) \/ DeclineReward(r)
                         \/ DirectUpdate(r)
    \/ \E p \in Payee : RefreshStripeStatus(p)
    \/ \E c \in Call, S \in SUBSET Reward : Click(c, S)
    \/ \E c \in Call : RequestStep(c) \/ Crash(c)

Spec == Init /\ [][Next]_vars

\* A request that is not killed runs on: Node resolves every await.
FairSpec == Spec /\ \A c \in Call : WF_vars(RequestStep(c))

(***************************************************************************)
(* Properties.                                                             *)
(***************************************************************************)

RowsOK ==
    /\ accepted \subseteq Reward
    /\ status \in [Reward -> RewardStatus \union {"none"}]
    /\ approvedBy \in [Reward -> Owner \union {NoOne}]
    /\ payoutStatus \in [Reward ->
                            {"not_started", "processing", "succeeded", "failed"}]
    /\ retryCount \in [Reward -> Nat]
    /\ held \in [Reward -> BOOLEAN]
    /\ transferId \in [Reward -> SUBSET Reward]
    /\ totalPaid \in [Program -> Nat]
    /\ connected \subseteq Payee
    /\ transfers \subseteq SUBSET Reward

RequestsOK ==
    /\ pc \in [Call -> Steps]
    /\ batch \in [Call -> SUBSET Reward]
    /\ row \in [Call -> Reward \union {NoReward}]
    /\ pool \in [Call -> SUBSET Reward]
    /\ todo \in [Call -> SUBSET Reward]
    /\ seen \in [Call -> [Reward -> Nat]]
    /\ clicks \in Nat

AtReward == \A c \in Call : pc[c] \in {"checked", "creditWrite"} => row[c] \in Reward

\* Every row, counter and request is well typed; a request that is about to
\* pool or to credit is at a reward.
TypeOK == RowsOK /\ RequestsOK /\ AtReward

\* Platform invariant 1 (rewards.ts:3-13, migration 001): no order of
\* approvals, refusals, payouts and updates that bypass rewards.ts leaves an
\* approved or paid reward without a human approver.
ApproverRecorded ==
    \A r \in Reward : status[r] \in {"approved", "paid"} => approvedBy[r] # NoOne

\* No money leaves without a human decision: every reward any Stripe
\* transfer covers has been approved by its owner, even when the request
\* worked from a pool it read long before.
MoneyNeedsApproval ==
    \A t \in transfers : \A r \in t : approvedBy[r] = OwnerOf[r]

\* A paid reward's stripe_transfer_id names a transfer Stripe really made
\* and that includes this reward, in every interleaving of requests, lost
\* answers, failed writes and crashes.
PaidIsBacked ==
    \A r \in Reward :
        status[r] = "paid" => /\ transferId[r] \in transfers
                              /\ r \in transferId[r]

OnePayeeWorthPaying(S) ==
    /\ ~(PoolTotal(S) < Threshold)
    /\ \A q, r \in S : OwnerOf[q] = OwnerOf[r] /\ PayeeOf[q] = PayeeOf[r]

\* A pooled transfer is for one payee, from one owner, and worth at least
\* the payee's minimum payout threshold, whichever reward was clicked.
PoolsAreCoherent == \A t \in transfers : OnePayeeWorthPaying(t)

\* rewards.ts:183-188: rewards "with active splits (reward_splits rows) are
\* excluded from threshold grouping entirely": no pooled transfer pays the
\* share of several researchers to the first of them.
SplitsNotPooled == \A t \in transfers : t \intersect SplitRewards = {}

\* lib/stripe/client.ts:14-20: a retried request "can never create a second
\* real transfer for the same reward".
NoSecondTransfer ==
    \A s, t \in transfers : s # t => s \intersect t = {}

\* "Increment program totals ... for each reward in the pool": when no
\* request is running a program's total_paid is the sum of its paid rewards.
TotalsMatchPaid ==
    (\A c \in Call : Idle(c)) =>
        \A p \in Program :
            totalPaid[p] = PoolTotal({r \in Reward :
                                status[r] = "paid" /\ ProgramOf[r] = p})

\* Migration 017: transfers "are only ever attempted on rewards that already
\* have status='approved'": a transfer is made while its rewards are approved.
TransfersOnlyApproved ==
    [][\A t \in transfers' \ transfers : \A r \in t : status[r] = "approved"]_vars

\* A reward the dashboard shows as processing is in the pool of a request that
\* will still write its outcome, however many requests work on it, unless one
\* died or a statement failed.
ProcessingIsOwned ==
    \A r \in Reward : payoutStatus[r] = "processing" =>
        \E c \in Call : pc[c] \in {"transfer", "sent", "refused"} /\ r \in pool[c]

\* A payout the dashboard shows as processing does not stay so for ever.
ProcessingEnds ==
    \A r \in Reward : (payoutStatus[r] = "processing")
                          ~> (payoutStatus[r] # "processing")

\* The payout code implements the ledger, whatever its hazards do short of
\* writing rows behind its back.
Ledger == INSTANCE PayoutLedger WITH
              authorised <- {r \in Reward : approvedBy[r] # NoOne},
              moved      <- transfers,
              settled    <- {r \in Reward : status[r] = "paid"}

\* Every step of propose, approve, decline and of any number of interleaved,
\* interrupted payout requests is a step of the ledger or changes nothing in it.
ImplementsLedger == Ledger!LedgerSpec
=============================================================================
