# A TLA+ verification of VAULTX

VAULTX is a platform on which organizations run bug bounty programs,
penetration tests, contests and AI-driven scans. It is a Next.js application:
server actions in `app/actions`, route handlers in `app/api`, libraries in
`lib`, and a Postgres database (Supabase) whose schema, triggers and row level
security policies are in `supabase/migrations`. Money moves through Stripe in
two directions: bounties go out to researchers (Stripe Connect transfers),
subscriptions come in (Stripe Billing). The repository also holds OmniRoute, a
gateway to language model providers that runs as a service of its own and keeps
OAuth accounts of many users alive.

This directory holds TLA+ models of the parts of that program in which the order
of things matters, TLC configurations that check them on small instances, and
proofs, checked by TLAPS, that hold for every instance.

## How the program runs, and how it is cut into steps

* Every server action and route handler is one serverless request. There is no
  lock and no shared memory; requests meet in the database and at Stripe.
* supabase-js sends each statement as a transaction of its own. Between two
  `await`s of one request any other request may run, and the process may die.
  So **one action of a model is what happens between two awaits that touch
  shared state**, and the local variables that survive an await are variables
  of the model.
* supabase-js returns `{ error }` and does not throw. Most handlers do not look
  at it: they carry on after a failed update, and a failed read looks like a
  table without rows. The models have this as the hazard `db_error`.
* Triggers run inside the statement that fires them, so they are part of the
  action of that statement.
* A client made by `lib/supabase/server.ts` acts as the signed-in user and row
  level security limits what it sees; one made by `lib/supabase/admin.ts` may do
  anything.

OmniRoute is different: one long-lived Node process over SQLite, whose calls to the
database are synchronous. There the step is what one callback does up to the next
timer or network answer, and what is kept in memory (promises, maps, chains of
promises) is state.

What the environment may do (overlapping requests, lost answers, crashes, failed
statements, outdated pages, direct SQL, late or reordered events) is a set
constant `Hazards` in each module. A run says which hazards it includes; a
theorem says which it excludes. Many theorems exclude none.

## Inventory

| Part | State | Operations | What is hard | What makes it correct |
|---|---|---|---|---|
| **Rewards and payouts** (`app/actions/rewards.ts`, `lib/stripe/client.ts`, triggers of migration 001) | `rewards` (status, approver, payout status, retry count, transfer id), `programs.total_paid`, Stripe's transfers | propose, approve, decline, pay one, pay a batch, refresh Stripe status | eight awaits between reading the rewards and recording the payment; a pool of several rewards is one transfer; lost answers; retries | only approved rewards are paid, each once; the records say what happened |
| **Subscriptions and billing** (`app/api/billing/webhook`, `app/api/cron/billing-grace-period`) | `billing_events`, `subscriptions`, `organizations.subscription_tier`, Stripe's subscriptions | five kinds of event, a daily job | at-least-once, unordered delivery; the job beside the webhook; a log entry made before the work | each event counts once; the tables end in agreement with Stripe; grace is given and ends |
| **VAULT agent and offline queue** (`app/api/vault/*`, `lib/ai/vault-actions.ts`, `lib/agent/sync-queue.ts`) | `vault_actions`, `vault_messages`, the browser's `pendingActionQueue` | ask, propose, confirm, execute, cancel, queue, synchronise | overlapping requests past one quota, double confirmation, cancelling during a confirmation, crash while executing, two synchronisations at once | an action runs at most once, after a confirmation, and is audited; a queued item is sent once; the quota holds |
| **OmniRoute: token refresh** (`OmniRoute/open-sse/services/tokenRefresh.ts`, `refreshSerializer.ts` and their callers) | `provider_connections`; in memory the refresh per connection, the lane per group, recent rotations; the provider's own state of the token family | refresh before and after a refusal, health check, quota page | refresh tokens can be used once: to present a consumed one may revoke the account; five kinds of callers, timeouts, restarts, lost answers; one adapter (kiro) that goes past all protection | no consumed token is presented; the row keeps up; live accounts stay active; the lanes move |
| **OmniRoute: the rest** | cooldowns, circuit breakers, caches, dashboards | routing, translation of formats, CRUD | fallback between accounts | a request goes to an account that is allowed to serve it |
| **Organization membership** (migrations 026, 027, 036) | `profiles.org_id`, `memberships` | join, move, leave, remove; two triggers that call each other | the triggers' mutual effects | the two tables agree |
| **Submissions, triage, AI validation** (`submissions.ts`, `triage.ts`, `lib/ai/validate.ts`) | `submissions`, reputation, rate limit counter | submit, validate, change status, assign, attach | validation runs seconds behind the answer, beside triagers | a human decision is not overwritten; reputation is credited once |
| **Plan entitlements** (`lib/billing/entitlements.ts`) | none of its own: counts rows, reads the tier | check before each create | count, then insert | limits hold |
| **CTF** (`submit-flag/route.ts`, `ctf.ts`) | `ctf_solves`, `ctf_wrong_attempts`, `solve_count` | submit a flag, reveal a hint | reads long before writes | one solve per researcher, one first blood |
| **Audit contests** (`contests.ts`, `contest-distribution.ts`) | `contest_findings`, `contest_payouts` | judge, finalize | finalizing twice; duplicates of duplicates; rounding | payouts sum to the pool, once |
| **Code quality, AI red team, PTaaS** | scan and engagement rows | run a scan, request a report | crash while running; cooldowns | at most one scan at a time |
| **Settings, API keys, public API, rate limit** | rows of one user; a counter in Redis | CRUD, count then insert | limits under concurrency | limits hold |
| **Notifications, email, reports, usage events, fraud flags** | outboxes | append | may be sent twice or not at all | nothing else depends on them |
| **Workspace, code review, GitHub App, language model client, sessions, UI** | documents, tokens | CRUD, HTTP | external libraries | - |

Parts interact as follows. Triage accepts a submission, which lets a reward be
proposed. The Stripe Connect status of a researcher decides whether the reward
can be paid. The billing webhook and the job set the tier, which every
entitlement check reads. The agent's actions call the server actions of other
parts. Notifications, email and the audit log are called by all and read by none.
`OmniRoute/` and `openrouter-agent/` are separate programs that lie in the same
repository; nothing in VAULTX imports them.

## The modules

    PayoutLedger            what paying a bounty promises (abstract)
       ^ refinement
    Rewards                 rewards.ts, await by await
       ^            ^
    MCRewards       RewardsProofs <- RewardsTotalsProofs
    (instances)     (theorems)       (the programs' counters)

    Billing                 webhook, grace period job, Stripe as sender
       ^            ^
    MCBilling       BillingProofs <- BillingSyncProofs
                                     (the tables follow Stripe)

    VaultAgent              the assistant: quota, actions, offline queue
       ^            ^
    MCVaultAgent    VaultAgentProofs

    TokenRefresh            OmniRoute: single-use tokens and who refreshes them
       ^            ^
    MCTokenRefresh  TokenRefreshProofs <- TokenRefreshLiveProofs
                               ^          (live accounts stay active)
                    TokenRefreshDirectProofs
                    (rows of accounts that are bypassed)

### Rewards

State. `status`, `approvedBy`, `payoutStatus`, `retryCount`, `held`,
`transferId` are the columns of `rewards`; `accepted` is the submissions' status
as far as `proposeReward` asks for it; `totalPaid` is `programs.total_paid`;
`connected` the profiles with payouts enabled; `transfers` is Stripe's record.
`markRewardPaid` passes Stripe the idempotency key `pool:` followed by the sorted
ids of the rewards, so a transfer *is* the set of rewards it pays, and Stripe
makes a transfer for a set at most once. `pc`, `batch`, `row`, `pool`, `todo`,
`seen` are the program counter and the local variables of a running payout
request: `pool` is `poolable`, `seen` the counter values it has read and will
write back plus something.

Actions, in the order of `rewards.ts`:

| Action | Code |
|---|---|
| `ProposeReward`, `ApproveReward`, `DeclineReward` | the three functions; approve and decline look at the caller's role and at nothing else of the row, so `ButtonShown` holds the condition under which the page draws the button, and the hazard `stale_page` drops it |
| `EnforceHumanApproval` | the trigger of migration 001: an insert or update that leaves an approved or paid reward without `approved_by` is refused |
| `DirectUpdate` | the update policy of migration 001, which lets an owner write any row past the server actions; status and approver are the columns the trigger is about |
| `Click`, `ReadReward`, `ReadPool`, `Hold`, `MarkProcessing`, `StripeTransfers`, `StripeRefuses`, `RecordPaid`, `CreditRead`, `CreditWrite`, `Settled`, `Finish` | `batchPayRewards` and the body of `markRewardPaid`, one action per await |
| `RecordFailed`, `ReadCounts`, `BumpRetryCount` | its catch block |
| `Crash` | the process ends between two awaits |

`CreditRead` and `CreditWrite` are the two halves of `incrementProgramTotalPaid`;
between them another request may write the same total.

Left out: audit log rows and notifications (written, never read by this part),
`reason` and `note`, rounding to cents (`amount` is a number with two decimals),
Stripe's 24-hour memory for keys (keys are remembered for ever, which is the
kinder case), and the two functions for split rewards, which no page calls. That a
reward *is* split (`SplitRewards`) is modelled, because it changes the pool.

### PayoutLedger

The promise behind the payout screen, in three sets: rewards that are authorised,
transfers that have moved, rewards that are settled. Money moves only for
authorised rewards, a reward is settled only when a transfer that includes it
has moved, a settled reward may be reopened, and what has moved stays moved.
`Rewards!ImplementsLedger` maps the approver column, Stripe's transfers and the
paid rewards to them.

### Billing

State. `stripe` and `queue` are Stripe's: what it knows of each subscription and
the events not yet answered with 200. `logged` is `billing_events`, `rows`
`subscriptions`, `tier` `organizations.subscription_tier`. `pc`, `event`, `seen`
are the webhook requests in flight; `jobDay`, `overdue`, `jobAt` the daily job
with the list it has read. `unpaidSince` and `processed` are history, read by
properties only.

Actions. `Checkout`, `ChangePlan`, `Cancel`, `PaymentFails`, `RetryFails`,
`PaymentSucceeds` are Stripe's (external; modelled as far as the webhook sees
them: each changes a subscription and emits events). `Receive` enters the event in
the log, `SkipDuplicate` answers one that is there, `Lookup` retrieves the
subscription or plan, `CheckoutWrite` ... `PaymentFailedWrite` are the updates of
the five cases, `WriteTier` the update of the organization, `Answer` the 200.
`LookupThrows` is the outer catch (500), after which Stripe sends again. `JobStart`
reads the overdue rows, `JobDowngrade` and `JobCancel` are the two updates per row.

Left out: emails (the warning on day 5 among them), the `invoices` table, period
dates and `cancel_at_period_end`, the search for a Stripe customer, add-ons
(`lib/billing/addons.ts:47` expects the webhook to call `upsertAddon`; it does
not). The states trialing, unpaid and incomplete are treated by this code exactly
as active and are represented by it. The first invoice of a checkout is not sent as
an event of its own: it would repeat what the checkout event does.

### VaultAgent

State. `may` is what a request finds in the profile: Agent Mode is on and the role
allows the actions. `used` counts the user's messages of the month
(`vault_messages`); `chat` holds the requests to `/api/vault/chat`, with what they
found in the profile and the queued item they were sent for. `status` is
`vault_actions.status` ("none" before the row exists), `request` the requests to
`/api/vault/execute-action`. `online`, `item` and `sync` are the browser's: its
connection, `pendingActionQueue` in IndexedDB, and the replays that run, each with
the items it has read. `audit` counts the entries of `audit_logs` about an action.
`runs`, `asked`, `raced`, `crossed`, `mishap` are history, read by properties only.

| Action | Code |
|---|---|
| `UserAsks`, `Count`, `Refuse`, `Store`, `StreamEnds` | `vault/chat/route.ts`: the profile, the count of messages and `checkEntitlement`, the insert, the end of the stream with the proposal |
| `Confirm`, `Judge`, `Reject`, `MarkConfirmed`, `Run`, `Record`, `Audit` | `vault/execute-action/route.ts`, one action per database call; `Run` is `executeAction`, which may succeed, fail, or report success of something that was refused |
| `Cancel`, `ProfileChanges`, `Forget` | `cancelVaultAction` (one conditional update), `setVaultAgentModeEnabled` and changes of role, `deleteVaultConversation` |
| `AskOffline` | the widget without a connection |
| `StartSync`, `Mark`, `Send`, `CannotSend`, `TakeAnswer`, `EndSync` | `syncPendingActions`, called by the widget's effect and by the listener for "online" |
| `ChatDies`, `RequestDies`, `TabCloses`, `GoOffline` | mishaps, each kind at most once in a behaviour and at most `MaxMishaps` kinds; failed database calls are branches of the actions that make them |

A replay is a chat request like any other, so the queue and the quota meet: an item
refused for the quota is marked failed. What the model of the language answers is a
free choice: nothing, or a proposal.

Left out: what an executed action does to other parts; the check that the plan
includes Agent Mode (made when an action is proposed and not again when it is
confirmed, so after a downgrade an old proposal still executes); the consent date;
users without an organization, who have no quota; the turn of the month; failures of
IndexedDB.

### TokenRefresh

State. `newest` and `alive` belong to the provider: the token it would accept, and
whether the token family is revoked. `row` is the connection in
`provider_connections`, `rotated` `tokenRotationMap`, `flight`
`connectionRefreshMutex` with the refresh it holds, `lane` the chain of promises
`groupTail` of each rotation group, its holder first. `job` are the callers: the
token they were loaded with, attempts made, whether their own persist callback ran.
`stray` holds the tokens of direct calls nobody waits for any more. Tokens of a
connection are numbered in the order they are issued, 0 is null.

Not every refresh goes through `getAccessToken`. `KiroExecutor.refreshCredentials`
(`kiro.ts:802`) calls upstream itself, although kiro is in `ROTATION_LOCK_GROUP`; the
other members of that table use `getAccessToken` (`codex.ts:1128`, `gitlab.ts:441`,
`default.ts:819`). `Direct` is the set of such connections, and `Bypasses` tells the
callers that refresh through the executor: the chat request that was refused and the
quota page. The health check and the check of a routed request call `getAccessToken`
for every provider. A bypassing refresh after a 401 or 403 has no lane, no mutex, no
rotation map and no look at the row; that of the quota page has its lane around it.

| Action | Code |
|---|---|
| `Load` | a caller reads the connection: chat request refused with 401 or 403 (`chatCore.ts`), request whose token is about to expire (`executors/base.ts`), request when it is routed (`checkAndRefreshToken` in `sse/services/tokenRefresh.ts`), health check (`tokenHealthCheck.ts`), quota page (`providerLimits.ts`) |
| `UsageTurn`, `UsageAnswered`, `UsageLeaves` | the quota page's own turn in the lane, and the write after it |
| `JoinFlight`, `RotationHit`, `UseRow`, `Enqueue` | `getAccessToken` and `_getAccessTokenWithStalenessCheck`: share a refresh, take the successor of a token consumed within the minute, take the row's token, or queue for the network |
| `Turn`, `Settle` | `serializeRefresh`: the turn, then the settle gap if somebody waits, and the release; with it the rest of the refresh: rotation recorded, compare-and-swap guard, persist callback, every caller told |
| `UpstreamStep`: `Accept`, `Refuse`, `FailCall` | the provider (external) and what the adapters make of its answers |
| `DirectCall`, `DirectAnswer`, `StrayAnswer` | kiro's refresh past `getAccessToken`; its answer when the caller has given up waiting |
| `TakeTokens`, `ReactiveGivesUp`, `SweepGivesUp`, `ReactiveRetries`, `TimeOut`, `GoOn` | what callers do with the answer: write tokens, deactivate the connection, try again (`refreshWithRetry`, `withTimeout`), carry on |
| `Age`, `RotationExpires`, `Crash` | time and restart |

`Quiet` makes callbacks that only wait for resolved promises run before timers and
network, as Node does. `Refuse` lets the provider revoke the family or not when a
consumed token is presented, since providers differ. Any 401 or `invalid_request`
counts as final in this code (`tokenRefresh.ts:1161-1171`), and `base.ts:623-629`
knows that a good token can meet one: that is the mishap `blip`. Each kind of mishap
happens to a connection at most once; for one property that matters (see
`LiveAccountsStayActive` below).

Left out: callers without a connection id, the manual refresh route, the export of
auth files (`codexAuthFile.ts:228`, `claudeAuthFile.ts:201`), the refresh GitLab Duo
makes before a request and persists afterwards (`gitlab.ts:665-677`), backoff and circuit
breaker (they only suppress refreshes), re-authentication by a person, two processes
on one database, the different thresholds for "about to expire" (there is one), a
failing read in the compare-and-swap guard. (The failing read in `chatCore.ts:3176`,
after which the connection is deactivated, is part of `ReactiveGivesUp`.)

## What the runs check

Hazards not listed are off. All runs set `CHECK_DEADLOCK FALSE`: the number of
clicks or of events is bounded, and a system in which nobody asks for anything
rightly stops.

| Run | Hazards | What it shows |
|---|---|---|
| `RewardsRace` | overlap, lost answer, stale page | two payout requests over the same two rewards: types, `MoneyNeedsApproval`, `PaidIsBacked`, `ProcessingIsOwned` (a reward in processing has a request that will record the outcome), and every step is a step of `PayoutLedger` |
| `RewardsFaults` | lost answer, db error, crash, direct SQL | `ApproverRecorded` (platform invariant 1 of `rewards.ts:3-13`) and `PoolsAreCoherent` with two owners and two currencies |
| `RewardsDisciplined` | none | with refusals by Stripe, retries, batches and a split reward: `NoSecondTransfer`, `TotalsMatchPaid`, `SplitsNotPooled`, and `ProcessingEnds` under fairness |
| `RewardsDoublePay` | lost answer | **violation** of `NoSecondTransfer` |
| `RewardsLateTransfer` | stale page | **violation** of `TransfersOnlyApproved` |
| `BillingRetries` | lost answer, retried charges, late events | `RowsInSync`, `TierInSync`, `GraceIsGiven`, `CancelledEndsFree` and types, with events that first arrive in order and handlers that do not throw |
| `BillingStorm` | all but retried charges | `HandledOnce` |
| `BillingLostEvent` | handler throws | **violation** of `RowsInSync` |
| `BillingRecharge` | retried charges | **violation** of `UnpaidIsDowngraded` |
| `VaultAgent` | crash, failed statement or cut connection | `QuotaHeld`, `RunsMatchStatus`, `RunsAudited`, `FinalIsFinal`, `ConfirmedEnds` for actions, `ExecutedWasAsked`, `AskedOnce`, `QueueDrains` for the queue, and types |
| `RefreshStorm` | lost answer, crash, failed row access, timeout, a fresh access token or a good refresh token refused for no reason: each for the first of three accounts, some for the others | `OnePostPerGroup`, `FamilySurvives`, `RowKeepsUp`, `LiveAccountsStayActive`, `OnlyUsageJams` and types |
| `RefreshNested` | none | **violation** of `QueueFlows` |

For every property of a passing run `PROJECT.json` names a mutant: a definition
of the module changed the way a plausible bug would change the code, under which
the run fails. Mutants stand before the definition they replace, with a comment
that begins with "Mutant".

### What the violations say

* **A reward can be paid twice** (`RewardsDoublePay`). `lib/stripe/client.ts:14-20`
  promises that a retried request can never create a second transfer for a reward,
  because callers pass the reward's own id as key. `markRewardPaid` passes the ids
  of the pool (`rewards.ts:260`). Stripe makes the transfer of {a}, the answer is
  lost, the catch block marks a failed; another reward b of the same researcher is
  approved; the next click pools {a, b}, a key Stripe has not seen. One request at
  a time is enough.
* **A declined reward can be transferred** (`RewardsLateTransfer`). Migration 017
  says transfers are only attempted on rewards that are approved. The pool is read
  at `rewards.ts:225-234` and paid at 256; a refusal in between, from a page
  loaded before the approval, is overwritten with "paid".
* **An event can be lost** (`BillingLostEvent`). The webhook logs the event first
  (`route.ts:38`) and treats a logged event as handled (`:50`). If the handler
  fails in between and answers 500, Stripe's next attempt is skipped.
* **Grace may never end** (`BillingRecharge`). Every failed charge writes a new
  `payment_failed_at` (`route.ts:253`). Stripe repeats charges within the seven
  days, so the job never finds them over; the email promises a downgrade at the
  end of the period.
* **The quota page stops a rotation group** (`RefreshNested`). `providerLimits.ts:260`
  takes a turn in the group's lane and, inside it, calls the executor's
  `refreshCredentials`, which for rotating providers other than kiro is
  `getAccessToken` and takes a turn again (`tokenRefresh.ts:1967`). The inner call waits for the outer one to
  release the lane. No timeout covers it: from then on every refresh of the group
  waits until the process restarts. One request, no mishap. `OnlyUsageJams` in
  `RefreshStorm` says that nothing else stops a lane.

### What holds only without a hazard

The passing runs say as much by what they leave out:

* `TotalsMatchPaid` fails under overlap: `total_paid` is read and written back
  (`rewards.ts:362`).
* `SplitsNotPooled` fails under `db_error`: the error of the query for splits is
  ignored (`rewards.ts:239`).
* `CancelledEndsFree` and `TierInSync` fail under `reorder`: an update that arrives
  after the deletion restores the tier (`route.ts:156`). `BillingRetries` has no
  handler that throws either, since `RowsInSync` and `TierInSync` do not survive one;
  `CancelledEndsFree` does, as the handler of a deletion looks nothing up (run once with
  `handler_throws` added, 1.1 million states).
* `GraceIsGiven` fails under overlap of webhook and job: the job acts on a list it
  read at its start (`billing-grace-period/route.ts:22`).
* `ProcessingEnds` and `ProcessingIsOwned` fail under `crash`: nothing looks for
  rewards a dead request left in "processing". `markRewardPaid` does not refuse them
  either: its guard and its query for the pool test `status` and not `payout_status`
  (`rewards.ts:209`, `:227-232`), so a later click pays them, or pays them again.
* `TierInSync` fails with two subscriptions of one organization, which
  `startCheckout` does not prevent: `customer.subscription.deleted` sets the tier to
  free (`route.ts:200`) without asking for another one. TLC finds it with
  `Sub = {s1, s2}` in the instance of `BillingLostEvent` without its hazard.
* The properties of `VaultAgent` name their exceptions. Two confirmations at once
  (`raced`) both execute the action, since the update at `execute-action/route.ts:73`
  has no condition, and a cancellation during a confirmation is overwritten; two
  replays that have read one item (`crossed`) both send it. A failed read of the
  count passes for zero messages, a failed update leaves the old status.
* A request that dies after `route.ts:73` leaves its action confirmed for ever, a
  closed tab its item in "syncing" (`sync-queue.ts:40`): no query asks for them again.
* `FamilySurvives` and `LiveAccountsStayActive` except accounts whose executor bypasses
  `getAccessToken`. Two chat requests of a kiro account that are refused at once
  suffice: both present the token they were loaded with, the second presents a consumed
  one, and the provider may revoke the family (TLC shows it in eight steps, without a
  mishap). `refreshSerializer.ts:15-17` promises that two siblings never post
  concurrently; for these calls nothing sees to it, and `OnePostPerGroup` is about calls
  made in a lane. What does hold for such an account is `RowKeepsUp`: its row never ends
  with an old token, though perhaps with none.
* `LiveAccountsStayActive` excepts a good token that upstream refuses (`blip`): the
  code takes the answer for final and deactivates a connection that upstream would serve.
* `FamilySurvives` and `RowKeepsUp` except the account a mishap has happened to. With
  a lost answer or a restart before the token is stored the consumed one is
  presented next, and nothing could prevent it. With a timeout it is the code: a
  caller whose refresh adopted the row's newer token is kept from storing the newest
  one by its own guard (`tokenRefresh.ts:1818`, which compares with the token the
  caller came with), and nobody else stores it if the caller has given up.
* `LiveAccountsStayActive` fails when upstream refuses a fresh access token three or
  four times within a minute, which the bound of one such refusal per connection keeps
  out of `RefreshStorm`. Behind the quota page's lane a caller that came with token 1
  is handed token 2 by the rotation map although the row holds 3, and
  `chatCore.ts:3103` writes it over the row: the callback's guard has skipped, and the
  handler takes that for a missing callback. Once the rotation is forgotten, the next
  caller queues the consumed token 2 for upstream; meanwhile the quota page leaves the
  lane and writes its 3 back. A caller loaded with 3 joins that refresh, is told the token is dead,
  finds its own token still in the row, and deactivates an account that upstream
  would serve. `TokenRefresh!Load` counts the refusals (`odd401`), and the theorem
  excludes them.
* The guard's skip itself does not last: `chatCore.ts:3103` takes "the callback did
  not run" for "this executor has no callback" and writes the tokens after all. In
  the absence of mishaps the row still ends with the newest token, which
  `RowKeepsUp` checks.

### Bounds, and why they suffice

`Rewards`: two rewards of one payee are the least that make a pool differ from a
click; a third, split one is added in `RewardsDisciplined`. Amounts 1 and 2 against
a threshold of 2 make one reward too small to be paid alone, so that being held,
being paid alone and being paid together all occur. `MaxRetries` is 1 or 2 instead
of 3: the cap is reached. Two requests (`c1`, `c2`, interchangeable, hence the
symmetry) and two clicks give every interleaving of two runs of the handler;
sequential retries get four clicks in `RewardsDisciplined`. `RewardsFaults` has one click, since
crash and failed statement at every await of one run, with direct updates around it,
are already some 860 000 states, and gives the two rewards two currencies and a
second owner instead.

`Billing`: the grace period is one or two days instead of seven, with `MaxDay`
beyond it, so that a subscription is overdue and the job acts. `MaxEvents` bounds
what Stripe sends: five events cover subscribe, fail, fail again, pay or cancel.
One organization with one subscription is enough wherever the handlers touch only
the rows of their own event; two subscriptions of one organization are the finding.
Two requests are the least for a duplicate that overlaps the original.

`VaultAgent`: one action, two confirmations and any number of cancellations; one item
and two replays, which may both have read it; one user's request beside the two of
the replays, against a limit of one message, so that three requests can pass the
count together. `MaxMishaps` is 1: any one kind of mishap, anywhere. The confirmations and the queue
touch each other only where a chat request proposes an action, so `MCInit` starts
with either the actions or the items done with; the module's `Init` has both. Larger
instances were run once: two mishaps (746 640 states), and two items without the
temporal properties (5.6 million).

`TokenRefresh`: two connections of one group are the least for a lane; the first (`c1`)
has all kinds of callers and all mishaps, the second (`c2`) contributes turns: its calls
fail or are refused, never accepted (`Tokens`), and its adapter answers null for a dead
token, as Codex's does (`Masks`). The third (`k1`) is an account of kiro in a group of
its own, with every kind of caller it has. Groups share nothing but the process, so
the constraint `OneGroupAtWork` lets only one of them leave its initial state; crashes
strike both. Two callers at a time, two attempts instead of three, three tokens for the
first connection: a caller can hold a token that was consumed twice over. `MaxMishaps`
is 1; without kiro, three callers and two mishaps were run once (1.7 million states).
Symmetry is not used, since liveness is checked.

What a bound hides, the theorems give back for the properties they prove: they have
no bound on rewards, requests, clicks, events, days, callers, tokens or items.

### Fairness

`Rewards!FairSpec`: weak fairness of each request's next step. Node resolves or
rejects every await (supabase-js and the Stripe client both have time limits), so a
request that is not killed goes on; `RewardsDisciplined` has no crash. Nothing is
assumed of users or triagers, and Stripe may refuse for ever.

`Billing!FairSpec`: weak fairness of delivery (Stripe repeats an event until it is
answered), of each request's steps, and of the job's work on a list it has read.
None for `Stripe`'s own decisions, the passing of days, or the start of the job.

`VaultAgent!Fairness`: weak fairness of the steps of chat requests, confirmations and
replays, which the runtime resumes when an await resolves; of `StartSync` by some
replay, because the widget's effect (`vault-widget.tsx:95-99`) runs whenever it is
online and not synchronising; and of `GoOnline`. None for what a user does.

`TokenRefresh!Fairness`: strong fairness of each caller's next step and of a connection's
refresh (its turn, the provider's answer, which fetch limits in time, and `Settle`). It is
strong because of `Quiet`: an answer or a turn that is due may have to let callbacks of
other callers pass, which with kiro's direct calls can come again and again, and Node's
queues do not pass over it for ever. `MCSpec` assumes less, weak fairness but for the
refreshes of kiro, and `OnlyUsageJams` holds all the same. Nothing is assumed of callers
to appear, of time, or of `TimeOut`, which therefore may come at any moment or not at all.

## What is proved

`tlapm` checks every proof of `RewardsProofs`, `RewardsTotalsProofs`, `BillingProofs`,
`BillingSyncProofs`, `VaultAgentProofs`, `TokenRefreshProofs`, `TokenRefreshDirectProofs`
and `TokenRefreshLiveProofs`, with SMT, Zenon and, for the temporal steps, LS4. All theorems
are about `Spec` and hold for all constants that meet the modules' assumptions
(`RewardsAssumption`, `RewardsFinite`, `BillingAssumption`, `VaultAssumption`,
`TokenRefreshAssumption`): any finite set of rewards, any owners, payees, amounts and
threshold, any number of requests, connections, groups, callers, actions and items.

| Theorem | Property | Hazards |
|---|---|---|
| `RewardsProofs!TypeCorrect` | `TypeOK` | all |
| `HumanApproval` | `ApproverRecorded` | all |
| `MoneyIsApproved` | `MoneyNeedsApproval` | all but direct SQL |
| `PaidWasTransferred` | `PaidIsBacked` | all but direct SQL |
| `LedgerRefinement` | `ImplementsLedger` | all but direct SQL |
| `PoolsCoherent` | `PoolsAreCoherent` | all |
| `SplitsStayOut` | `SplitsNotPooled` | all but db error |
| `PaidAtMostOnce` | `NoSecondTransfer` | none |
| `TotalsKept` | `TotalsMatchPaid` | lost answers only |
| `BillingProofs!TypeCorrect` | `TypeOK` | all |
| `EachEventHandledOnce` | `HandledOnce` | all |
| `SubscriptionsInSync` | `RowsInSync` | `InOrder`: all but overlap, reorder, handler throws, db error, crash |
| `GraceIsKept` | `GraceIsGiven` | `InOrder` |
| `TiersInSync` | `TierInSync` | `InOrder`, and no organization ever has two live subscriptions |
| `SingleTierInSync` | `TierInSync` | `InOrder`, one subscription per organization |
| `ProcessingOwned` (Rewards) | `ProcessingIsOwned` | all but crash, db error, direct SQL |
| `VaultTypes` | `TypeOK` | all |
| `QuotaIsHeld` | `QuotaHeld` | all; the property excepts failed counts |
| `StatusTellsRuns`, `OutcomeStays` | `RunsMatchStatus`, `FinalIsFinal` | all; the properties except `raced` |
| `EveryRunIsAudited` | `RunsAudited` | all; the property excepts dead requests and failed inserts |
| `ItemIsAskedOnce` | `AskedOnce` | all; the property excepts `crossed` |
| `ExecutedIsAsked` | `ExecutedWasAsked` | all; the property excepts failed calls |
| `RefreshTypes` | `TypeOK` | all |
| `OneCallPerGroup` | `OnePostPerGroup` | all; the property is about calls made in a lane |
| `FamilyIsSafe` | `FamilySurvives` | all; the property excepts the connection concerned, and those of kiro |
| `RowIsKeptUp` | `RowKeepsUp` | all; the property excepts the connection concerned |
| `LiveStayActive` | `LiveAccountsStayActive` | all but odd401; the property excepts failed row accesses, timeouts, good tokens refused, and connections of kiro |

The arguments:

* **`MoneyInv`** (money is approved, paid rewards are backed, the ledger). Neither
  property is inductive: a transfer is made from a pool read earlier, and a row is
  marked paid after the transfer. The strengthening follows the money through the
  request: `ApprovedByOwner` (a row that is or was approved names the owner of its
  organization, and an approver is never taken back), and so does every reward in a
  request's `pool` from the moment it was read; `SentIsBacked` (a request that has
  an answer from Stripe has its pool among `transfers`); and `Coherent`. Direct SQL
  is excluded because it may put any person into `approved_by`.
* **`Coherent`** (pools). A pool that passed the threshold test stays as it is until
  the transfer, and owner, payee and amount of a reward never change.
* **`SplitsOut`**. Pools hold no split reward, provided the query that finds them
  does not fail.
* **`SinglePayInv`** (paid at most once, without hazards). `OneAtATime`: at most one
  request is not idle. `SendsApproved`: its pool, until the transfer, holds approved
  rewards only. `CoveredIsPaid`: a reward that a transfer covers is paid, or in the
  pool of the request that is about to record it. So the pool of a new transfer is
  disjoint from every earlier one. This is the argument that breaks with one lost
  answer, where a covered reward stays approved. Nothing can be spared: with any
  single one of the six hazards TLC finds a second transfer within two clicks.
* **`TotalsInv`** (the programs' counters). At every moment, not only at rest, a
  program's `total_paid` is the sum over its paid rewards without those a request has
  still to count (`TotalsCounted`); what a request has still to count is paid
  (`CreditsPaid`), and the value it has read is the one it will overwrite
  (`ReadIsFresh`). A lost answer does no harm: a transfer that is made again is
  recorded once, since only approved rewards get into a pool. Each of the other five
  hazards alone violates `TotalsMatchPaid`; TLC shows it with two clicks. The step
  that counts a reward needs that a sum over a set grows by what is added. `PoolTotal`
  is a fold of the community modules, whose recursion picks elements by `CHOOSE`;
  `TotalAddsUp` shows that it agrees with every function that adds up (`AddsUp`),
  `SomethingAddsUp` that there is one, both by a smallest counterexample among the
  finite sets of rewards, which takes the place of an induction.
* **`OnceInv`** (each event handled once) adds that an answered event is in the log:
  the log entry and the choice to handle are one statement, whose unique constraint
  decides, and nothing ever leaves the log.
* **`RowsInv`** (the tables follow Stripe, in order). Stripe may be ahead of the tables
  by any number of events, so the tables alone say nothing. `NewestIsLast`: of the
  events that wait for a subscription the newest carries the last word (`LastWord`):
  handling it, with none after it, leaves the row as Stripe has it. `Synced`: where
  none waits, the row is right (`RowRight`), or the one request at work on it is about
  to make it so. `NumbersOK` (events are taken up in the order they were sent),
  `RowExists` (no update comes before the checkout that makes the row), `Unknown` and
  `OneAtATime` support it. `InOrder` is what it takes: TLC finds `RowsInSync` and
  `GraceIsGiven` violated by each of the five excluded hazards alone. Lost answers,
  retried charges and late events are allowed.
* **`GraceIsKept`** from the same invariant: the row the job acts on is right, and it
  is dated no earlier than the failure at Stripe.
* **`TierInv`** (tiers) follows the organization as `RowsInv` follows the subscription.
  `OneLive` is a hypothesis on the behaviour and not an invariant, since
  `startCheckout` sells a second subscription to whoever asks.
* **`ProcessingIsOwned`** is inductive together with `ApprovedByOwner`, without which
  the approval trigger could refuse the very statement that records the outcome.
* **`QuotaRoom`** (the quota). `used` plus the requests that have counted and not yet
  stored stays below the limit plus the number of callers: a request passes the
  count with `used` below the limit, and the others that have counted are at most
  all callers but one. Deleting a conversation only lowers `used`.
* **`ActionsInv`** (status and runs). `Alone`: an action that is not raced has at most
  one request. `Undecided`: before that request has recorded the outcome the action is
  proposed or confirmed. `AllTold`: the status, and how far the request has got, tell
  how often the action has run. **`Accounted`** adds up: the runs of an action are its
  audit entries and the requests that have run it and still owe one.
* **`QueueInv`** (the offline queue). `AllOnce`: an item is listed by one replay, about
  to be sent, on its way or asked, and one of these only. `Awaited`: a replay that
  waits, waits for its own request. `Stored`: a good answer comes after the insert.
* **`Control`** (lanes and callers, under every mishap). `Attached` and `StarterStays`:
  a caller belongs to a connection, and the caller that started a refresh is at that
  connection and has not left. `LaneHeld`: a refresh at upstream or in its settle gap,
  and the quota page from its turn until it leaves, is at the head of its lane, so there
  is one in a group. `Bypassing` tells direct calls from refreshes.
* **`Sound`** (families and rows): what `Good` says of every connection without a
  mishap, if all its refreshes go through `getAccessToken`. Its family is alive; the rotation map knows the last rotation only; with no
  refresh under way the row holds the newest token, or a caller who has it is about
  to write it (`Pending`). A refresh under way presents the token of the row, which is
  the newest until upstream accepts it (`FlightGood`), so no caller's own, older token
  is ever presented: a caller knows no token newer than the newest and is answered
  with that one (`JobGood`). A mishap of another connection changes none of this.
* **`PassedInv`** (rows of connections that can be bypassed). Little of `Good` is left:
  several callers may present one token, and the family may die. What remains is that
  upstream hands out each token once. A token has been issued and is not written yet
  (`Ahead`) as long as one refresh or one direct caller (`Carrier`) has it, alone; and
  who may present a token (`Presents`, a refresh in the lane) knows an older one then
  (`Useful`), so nobody gets a second one before the first is written. When nobody is
  ahead, the row has the newest token, or the health check has cleared it.
* **`GoodOrStuck`** (live accounts stay active). A lost answer or a restart ends
  `Good`, but not the property: the connection is then `Stuck`, the newest token is
  known neither to the row nor to the rotation map, a refresh or a caller, and nobody
  ever learns it, so the row is never again at the newest token. And a connection is
  deactivated only by a caller who was told that its token is dead
  (`DeactivatedIsTold`), which at a `Good` connection nobody has been. What is neither
  is a connection where one party knows the newest token while another writes an older
  one: failing row accesses and abandoned refreshes, which the property excepts, and
  refusals of fresh tokens (`NeverOdd`) lead there.
* The refinement shows that the initial states are initial states of the ledger
  and each action is `Authorise`, `Move`, `Settle`, `Reopen` or a stutter, from
  `MoneyInv`.

## What is only model-checked

Liveness (`ProcessingEnds`, `CancelledEndsFree`, `ConfirmedEnds`, `QueueDrains`,
`OnlyUsageJams`), which the prover cannot do with fairness; `LiveAccountsStayActive`
with a refusal of a fresh token, where the bound of one refusal matters; and all
findings. Every other property of a passing run is a theorem.

## What is not modelled

See "components" in `PROJECT.json`, each with its reason, and "hazards" there for
the places in the code of those parts that the plan is for. Most of the repository by
lines is OmniRoute's adapters, format translators and dashboard pages: pure or
per-request code without state shared between requests. Language models, GitHub,
the sandbox service and email are external; UI and formatting carry no
rule of the system; CRUD on a user's own rows has no second actor.

## Plan

Done so far: payouts, billing, the assistant with its offline queue, OmniRoute's token
refresh. What is left, most important first:

1. **Organization membership** (`Membership`): the two tables and their two
   triggers as functions of one statement; the drift view as a property.
   To prove: agreement for users of one organization.
2. **Submissions** (`Submissions`): submit, validate, decide, reopen, reputation;
   composed with `Rewards` through `accepted`.
3. **Entitlements** (`Entitlements`): count, then insert, for any number of
   requests, composed with the tier of `Billing`.
4. **CTF and contests**: finalizing as steps, `calculatePayouts` as a function
   checked against a reference over bounded findings.
5. **OmniRoute's account fallback**: cooldowns and circuit breakers over the accounts
   `TokenRefresh` keeps active.
6. **More proofs**: under which hazards the safety halves of the liveness properties
   hold (a request that is not killed has a next step), and the new components'
   invariants as they come.
