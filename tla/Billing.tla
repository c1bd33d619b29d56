------------------------------ MODULE Billing ------------------------------
(***************************************************************************)
(* Subscriptions of organizations: the Stripe webhook                      *)
(* (app/api/billing/webhook/route.ts), the daily grace period job          *)
(* (app/api/cron/billing-grace-period/route.ts) and the tables of          *)
(* migrations 028 and 030.                                                 *)
(*                                                                         *)
(* Stripe owns the subscriptions and tells the webhook about every change. *)
(* It repeats an event until a request answers 2xx and promises no order.  *)
(* The webhook enters the event in billing_events before it acts on it and *)
(* skips every event it finds there.  Each statement is a transaction of   *)
(* its own: whatever happens between two awaits of one request may be      *)
(* interleaved with other requests and with the job.                       *)
(***************************************************************************)
EXTENDS Naturals, Sequences, FiniteSets

CONSTANTS
    Org,         \* organizations
    Sub,         \* Stripe subscriptions, of the organization in their metadata
    Plan,        \* the paid plans
    OrgOf,       \* metadata.org_id of a subscription
    Call,        \* webhook requests that may be in flight
    Grace,       \* days an unpaid subscription keeps its tier (7 in the job)
    MaxDay,      \* bound: days in one behaviour
    MaxEvents,   \* bound: events Stripe sends
    Free,        \* the tier without a subscription
    Never,       \* null in payment_failed_at
    NoSub,       \* the job is at no subscription
    NoEvent,     \* a request that handles no event
    Hazards      \* what the environment may do, see HazardKinds

HazardKinds == {"overlap",        \* deliveries and the job run at the same time
                "reorder",        \* an event arrives before an earlier one
                "late",           \* an event arrives on a later day
                "lost_answer",    \* Stripe misses the 200 and sends again
                "handler_throws", \* a lookup fails after the event was logged
                "db_error",       \* an update fails, which nobody looks at
                "crash",          \* a request or the job dies half way
                "retry_charge"}   \* Stripe charges again and fails again

ASSUME BillingAssumption ==
    /\ OrgOf \in [Sub -> Org]
    /\ Grace \in Nat \ {0}
    /\ MaxDay \in Nat
    /\ MaxEvents \in Nat
    /\ Free \notin Plan
    /\ Never \notin Nat
    /\ NoSub \notin Sub
    /\ Hazards \subseteq HazardKinds

VARIABLES
    stripe,       \* what Stripe knows: status and plan of each subscription
    unpaidSince,  \* the day the last run of failed payments began at Stripe
    queue,        \* events sent and not yet answered with 200
    sent,         \* number of events so far, each has its number as id
    logged,       \* billing_events: ids of the events received
    rows,         \* subscriptions: status, plan and payment_failed_at
    tier,         \* organizations.subscription_tier
    pc,           \* where each webhook request is
    event,        \* the event it handles
    seen,         \* the subscription it writes: retrieved, or in the event
    processed,    \* ids of the events a request has answered with 200
    day,          \* today
    jobDay,       \* the day the job last ran
    overdue,      \* subscriptions the job has still to downgrade
    jobAt         \* the subscription whose organization it just downgraded

stripeVars == <<stripe, unpaidSince, queue, sent>>
tables     == <<logged, rows, tier>>
callVars   == <<pc, event, seen, processed>>
jobVars    == <<jobDay, overdue, jobAt>>
vars == <<stripeVars, tables, callVars, day, jobVars>>

EventTypes == {"checkout.session.completed", "customer.subscription.updated",
               "customer.subscription.deleted", "invoice.paid",
               "invoice.payment_failed"}

\* subscription_status; "none" stands for no row.  trialing, unpaid and the
\* incomplete states are handled exactly as active by this code.
Status == {"none", "active", "past_due", "canceled"}

\* Where a webhook request is: what it awaits next.
Steps == {"idle", "lookup", "writeSub", "writeTier", "answer"}

Event == [n : Nat, type : EventTypes, sub : Sub, status : Status,
          plan : Plan \union {Free}]

Init ==
    /\ stripe = [s \in Sub |-> [status |-> "none", plan |-> Free]]
    /\ unpaidSince = [s \in Sub |-> Never]
    /\ queue = {}
    /\ sent = 0
    /\ logged = {}
    /\ rows = [s \in Sub |-> [status |-> "none", plan |-> Free, failedAt |-> Never]]
    /\ tier = [o \in Org |-> Free]
    /\ pc = [c \in Call |-> "idle"]
    /\ event = [c \in Call |-> NoEvent]
    /\ seen = [c \in Call |-> [status |-> "none", plan |-> Free]]
    /\ processed = {}
    /\ day = 0
    /\ jobDay = 0
    /\ overdue = {}
    /\ jobAt = NoSub

(***************************************************************************)
(* Stripe, as the webhook and the checkout page see it.                    *)
(***************************************************************************)

\* The subscription changes and one event of each type is sent about it.
Emit(s, new, types) ==
    /\ sent + Len(types) <= MaxEvents
    /\ stripe' = [stripe EXCEPT ![s] = new]
    /\ queue' = queue \union
            {[n |-> sent + i, type |-> types[i], sub |-> s,
              status |-> new.status, plan |-> new.plan] : i \in DOMAIN types}
    /\ sent' = sent + Len(types)
    /\ UNCHANGED <<tables, callVars, day, jobVars>>

\* startCheckout and the hosted page.  The button of the pricing page calls it for
\* an organization on the free tier only (checkout-button.tsx:36, the guard on
\* tier here); startCheckout itself does not look at the tier.
Checkout(s, p) ==
    /\ stripe[s].status = "none"
    /\ tier[OrgOf[s]] = Free
    /\ Emit(s, [status |-> "active", plan |-> p], <<"checkout.session.completed">>)
    /\ UNCHANGED unpaidSince

\* Stripe changes the plan, in the portal that openBillingPortal opens.
ChangePlan(s, p) ==
    /\ stripe[s].status = "active"
    /\ stripe[s].plan # p
    /\ Emit(s, [status |-> "active", plan |-> p], <<"customer.subscription.updated">>)
    /\ UNCHANGED unpaidSince

\* Through the portal, at the period's end, or when Stripe gives up charging.
Cancel(s) ==
    /\ stripe[s].status \in {"active", "past_due"}
    /\ Emit(s, [stripe[s] EXCEPT !.status = "canceled"],
            <<"customer.subscription.deleted">>)
    /\ UNCHANGED unpaidSince

PaymentFails(s) ==
    /\ stripe[s].status = "active"
    /\ Emit(s, [stripe[s] EXCEPT !.status = "past_due"],
            <<"invoice.payment_failed", "customer.subscription.updated">>)
    /\ unpaidSince' = [unpaidSince EXCEPT ![s] = day]

RetryFails(s) ==
    /\ "retry_charge" \in Hazards
    /\ stripe[s].status = "past_due"
    /\ Emit(s, stripe[s], <<"invoice.payment_failed">>)
    /\ UNCHANGED unpaidSince

PaymentSucceeds(s) ==
    /\ stripe[s].status = "past_due"
    /\ Emit(s, [stripe[s] EXCEPT !.status = "active"],
            <<"invoice.paid", "customer.subscription.updated">>)
    /\ UNCHANGED unpaidSince

(***************************************************************************)
(* The webhook.                                                            *)
(***************************************************************************)

Idle(c) == pc[c] = "idle"
JobIdle == overdue = {}
AllIdle == JobIdle /\ \A c \in Call : Idle(c)

Undelivered == {e \in queue : e.n \notin logged}

\* Without "overlap" a delivery waits for the one before it, without
\* "reorder" events first arrive in the order they were sent.
MayArrive(e) ==
    /\ e \in queue
    /\ "overlap" \in Hazards \/ AllIdle
    /\ "reorder" \in Hazards \/ \A f \in Undelivered : e.n <= f.n

\* Mutant: the event is entered without the unique index.
IsNewEventMut(e) == TRUE

\* The insert into billing_events succeeds: there is a unique index on
\* stripe_event_id.
IsNewEvent(e) == e.n \notin logged

Receive(c, e) ==
    /\ Idle(c)
    /\ MayArrive(e)
    /\ IsNewEvent(e)
    /\ logged' = logged \union {e.n}
    /\ pc' = [pc EXCEPT ![c] = "lookup"]
    /\ event' = [event EXCEPT ![c] = e]
    /\ UNCHANGED <<stripeVars, rows, tier, seen, processed, day, jobVars>>

\* "Duplicate event skipped" is a 200: Stripe is done with the event.
SkipDuplicate(e) ==
    /\ MayArrive(e)
    /\ ~IsNewEvent(e)
    /\ queue' = queue \ {e}
    /\ UNCHANGED <<stripe, unpaidSince, sent, tables, callVars, day, jobVars>>

\* checkout.session.completed and invoice.paid retrieve the subscription as
\* it is now, the other events carry it as it was.
Lookup(c) ==
    /\ pc[c] = "lookup"
    /\ seen' = [seen EXCEPT ![c] =
            IF event[c].type \in {"checkout.session.completed", "invoice.paid"}
            THEN stripe[event[c].sub]
            ELSE [status |-> event[c].status, plan |-> event[c].plan]]
    /\ pc' = [pc EXCEPT ![c] = "writeSub"]
    /\ UNCHANGED <<stripeVars, tables, event, processed, day, jobVars>>

\* Stripe does not answer, or no plan is found: the answer is a 500, but the
\* event stays in billing_events.  A failed payment is looked up last.
LookupThrows(c) ==
    /\ "handler_throws" \in Hazards
    /\ \/ /\ pc[c] = "lookup"
          /\ event[c].type \in {"checkout.session.completed",
                                "customer.subscription.updated", "invoice.paid"}
       \/ /\ pc[c] = "answer"
          /\ event[c].type = "invoice.payment_failed"
    /\ pc' = [pc EXCEPT ![c] = "idle"]
    /\ event' = [event EXCEPT ![c] = NoEvent]
    /\ UNCHANGED <<stripeVars, tables, seen, processed, day, jobVars>>

DbError == "db_error" \in Hazards

\* One statement on the subscription's row.
WriteRow(c, type, new, next) ==
    /\ pc[c] = "writeSub"
    /\ event[c].type = type
    /\ \/ rows' = [rows EXCEPT ![event[c].sub] = new]
       \/ DbError /\ UNCHANGED rows
    /\ pc' = [pc EXCEPT ![c] = next]
    /\ UNCHANGED <<stripeVars, logged, tier, event, seen, processed, day, jobVars>>

\* An update does nothing where there is no row.
IfThere(row, new) == IF row.status = "none" THEN row ELSE new

\* Mutant: the date is always set.
DatedAlways(status, row) == day

\* payment_failed_at after an update: now when it is past due, otherwise null.
Dated(status, row) == IF status = "past_due" THEN day ELSE Never

CheckoutWrite(c) ==
    WriteRow(c, "checkout.session.completed",
             [status |-> seen[c].status, plan |-> seen[c].plan, failedAt |-> Never],
             "writeTier")

UpdatedWrite(c) ==
    LET row == rows[event[c].sub] IN
    WriteRow(c, "customer.subscription.updated",
             IfThere(row, [status |-> seen[c].status, plan |-> seen[c].plan,
                           failedAt |-> Dated(seen[c].status, row)]),
             "writeTier")

DeletedWrite(c) ==
    LET row == rows[event[c].sub] IN
    WriteRow(c, "customer.subscription.deleted",
             IfThere(row, [row EXCEPT !.status = "canceled"]), "writeTier")

\* The status stays past due until the update of the subscription arrives.
PaidWrite(c) ==
    LET row == rows[event[c].sub] IN
    WriteRow(c, "invoice.paid",
             IfThere(row, [row EXCEPT !.failedAt = Never]), "answer")

PaymentFailedWrite(c) ==
    LET row == rows[event[c].sub] IN
    WriteRow(c, "invoice.payment_failed",
             IfThere(row, [row EXCEPT !.status = "past_due",
                                      !.failedAt = day]), "answer")

\* Mutants: the end of a subscription leaves the tier alone; the status is
\* written where the plan belongs.
NewTierMut(type, sub) == sub.plan
NewTierStatus(type, sub) == sub.status

\* The tier the event leaves the organization with: the plan's name whatever
\* the subscription's status is, and free when it is deleted.
NewTier(type, sub) ==
    IF type = "customer.subscription.deleted" THEN Free ELSE sub.plan

WriteTier(c) ==
    /\ pc[c] = "writeTier"
    /\ \/ tier' = [tier EXCEPT ![OrgOf[event[c].sub]] =
                       NewTier(event[c].type, seen[c])]
       \/ DbError /\ UNCHANGED tier
    /\ pc' = [pc EXCEPT ![c] = "answer"]
    /\ UNCHANGED <<stripeVars, logged, rows, event, seen, processed, day, jobVars>>

\* The email is sent and the answer is 200, which may not reach Stripe.
Answer(c) ==
    /\ pc[c] = "answer"
    /\ processed' = processed \union {event[c].n}
    /\ \/ queue' = queue \ {event[c]}
       \/ "lost_answer" \in Hazards /\ UNCHANGED queue
    /\ pc' = [pc EXCEPT ![c] = "idle"]
    /\ event' = [event EXCEPT ![c] = NoEvent]
    /\ UNCHANGED <<stripe, unpaidSince, sent, tables, seen, day, jobVars>>

\* The function is killed: Stripe sends the event again.
Crash(c) ==
    /\ "crash" \in Hazards
    /\ ~Idle(c)
    /\ pc' = [pc EXCEPT ![c] = "idle"]
    /\ event' = [event EXCEPT ![c] = NoEvent]
    /\ UNCHANGED <<stripeVars, tables, seen, processed, day, jobVars>>

RequestStep(c) ==
    \/ Lookup(c)
    \/ CheckoutWrite(c) \/ UpdatedWrite(c) \/ DeletedWrite(c)
    \/ PaidWrite(c) \/ PaymentFailedWrite(c)
    \/ WriteTier(c) \/ Answer(c)

(***************************************************************************)
(* The daily job.                                                          *)
(***************************************************************************)

\* Mutant: the grace period ends a day early.
GraceOverEarly(row) == row.failedAt # Never /\ day - row.failedAt + 1 >= Grace

\* daysDiff >= 7 on the row as the job read it.  The code floors the time elapsed;
\* days are counted here as if charges failed at the hour at which the job runs.
GraceOver(row) == row.failedAt # Never /\ day - row.failedAt >= Grace

\* The job reads all past due rows at once, then works from that list.
JobStart ==
    /\ jobDay < day
    /\ "overlap" \in Hazards \/ \A c \in Call : Idle(c)
    /\ jobDay' = day
    /\ overdue' = {s \in Sub : rows[s].status = "past_due" /\ GraceOver(rows[s])}
    /\ UNCHANGED <<stripeVars, tables, callVars, day, jobAt>>

JobDowngrade(s) ==
    /\ s \in overdue
    /\ jobAt = NoSub
    /\ \/ tier' = [tier EXCEPT ![OrgOf[s]] = Free]
       \/ DbError /\ UNCHANGED tier
    /\ jobAt' = s
    /\ UNCHANGED <<stripeVars, logged, rows, callVars, day, jobDay, overdue>>

JobCancel(s) ==
    /\ jobAt = s
    /\ \/ rows' = [rows EXCEPT ![s].status = "canceled"]
       \/ DbError /\ UNCHANGED rows
    /\ jobAt' = NoSub
    /\ overdue' = overdue \ {s}
    /\ UNCHANGED <<stripeVars, logged, tier, callVars, day, jobDay>>

JobCrash ==
    /\ "crash" \in Hazards
    /\ ~JobIdle
    /\ overdue' = {}
    /\ jobAt' = NoSub
    /\ UNCHANGED <<stripeVars, tables, callVars, day, jobDay>>

\* The workflow runs the job once a day.  Without "late" no event waits for
\* the next day.
NextDay ==
    /\ day < MaxDay
    /\ jobDay = day
    /\ JobIdle
    /\ "late" \in Hazards \/ (Undelivered = {} /\ AllIdle)
    /\ day' = day + 1
    /\ UNCHANGED <<stripeVars, tables, callVars, jobVars>>

Next ==
    \/ \E s \in Sub : \/ Cancel(s) \/ PaymentFails(s) \/ RetryFails(s)
                      \/ PaymentSucceeds(s) \/ JobDowngrade(s) \/ JobCancel(s)
                      \/ \E p \in Plan : Checkout(s, p) \/ ChangePlan(s, p)
    \/ \E e \in queue : SkipDuplicate(e) \/ \E c \in Call : Receive(c, e)
    \/ \E c \in Call : RequestStep(c) \/ LookupThrows(c) \/ Crash(c)
    \/ JobStart \/ JobCrash \/ NextDay

Spec == Init /\ [][Next]_vars

\* Stripe delivers again until it is answered, a request runs to its end.
Deliver == \E e \in queue : SkipDuplicate(e) \/ \E c \in Call : Receive(c, e)
FairSpec ==
    /\ Spec
    /\ WF_vars(Deliver)
    /\ \A c \in Call : WF_vars(RequestStep(c))
    /\ WF_vars(\E s \in Sub : JobDowngrade(s) \/ JobCancel(s))

(***************************************************************************)
(* Properties.                                                             *)
(***************************************************************************)

Tiers == Plan \union {Free}
DayOrNever == Nat \union {Never}

StripeOK ==
    /\ stripe \in [Sub -> [status : Status, plan : Tiers]]
    /\ unpaidSince \in [Sub -> DayOrNever]
    /\ queue \subseteq Event
    /\ sent \in Nat

TablesOK ==
    /\ logged \subseteq Nat
    /\ rows \in [Sub -> [status : Status, plan : Tiers, failedAt : DayOrNever]]
    /\ tier \in [Org -> Tiers]

RequestsOK ==
    /\ pc \in [Call -> Steps]
    /\ event \in [Call -> Event \union {NoEvent}]
    /\ seen \in [Call -> [status : Status, plan : Tiers]]
    /\ processed \subseteq Nat
    /\ \A c \in Call : ~Idle(c) => event[c] \in Event

JobOK ==
    /\ day \in Nat
    /\ jobDay \in Nat
    /\ overdue \subseteq Sub
    /\ jobAt \in Sub \union {NoSub}

\* Every table, message and request is well typed, and a request that runs
\* has an event.
TypeOK == StripeOK /\ TablesOK /\ RequestsOK /\ JobOK

\* The idempotency check: however often and however concurrently Stripe sends
\* an event, at most one request ever acts on it.
HandledOnce ==
    \A c \in Call : ~Idle(c) =>
        /\ event[c].n \in logged \ processed
        /\ \A d \in Call \ {c} : ~Idle(d) => event[d].n # event[c].n

\* No event is on its way or in work.
Quiet == queue = {} /\ AllIdle

RowInSync(s) ==
    CASE stripe[s].status = "none" -> rows[s].status = "none"
      [] stripe[s].status = "active" ->
             rows[s] = [status |-> "active", plan |-> stripe[s].plan,
                        failedAt |-> Never]
      [] stripe[s].status = "past_due" ->
             rows[s].status \in {"past_due", "canceled"}
      [] stripe[s].status = "canceled" -> rows[s].status = "canceled"

\* Migration 028:35, the subscriptions table "tracks active org subscription
\* states sync'd from Stripe": once every event is delivered, the rows agree
\* with Stripe, but for those the job has cancelled.
RowsInSync == Quiet => \A s \in Sub : RowInSync(s)

Live(o) == {s \in Sub : OrgOf[s] = o /\ stripe[s].status \in {"active", "past_due"}}
Paying(o) == {s \in Live(o) : stripe[s].status = "active"}

\* "Keep organization subscription tier name in sync": once every event is
\* delivered an organization that pays has a plan it pays for, and one
\* without a live subscription is on the free tier.
TierInSync ==
    Quiet => \A o \in Org :
        /\ Paying(o) # {} => tier[o] \in {stripe[s].plan : s \in Live(o)}
        /\ Live(o) = {} => tier[o] = Free

\* The job downgrades no organization, all of whose events have arrived, that
\* has not been unpaid at Stripe for the whole grace period.
GraceIsGiven ==
    [][\A s \in Sub :
           /\ jobAt = NoSub
           /\ jobAt' = s
           /\ \A e \in Undelivered : e.sub # s
           => /\ stripe[s].status # "active"
              /\ day - unpaidSince[s] >= Grace]_vars

\* "If payment is not resolved by the end of this period, your organization
\* will be automatically downgraded": after the day's run no organization
\* keeps a tier it has not paid for since the grace period began.
UnpaidIsDowngraded ==
    (jobDay = day /\ Quiet) =>
        \A s \in Sub :
            stripe[s].status = "past_due" /\ day - unpaidSince[s] >= Grace
                => tier[OrgOf[s]] = Free

\* A subscription that ends at Stripe ends here, however often events are
\* repeated, charges tried again, and old events sent anew, as long as events first
\* arrive in the order they were sent.
CancelledEndsFree ==
    \A s \in Sub : stripe[s].status = "canceled" ~> tier[OrgOf[s]] = Free
=============================================================================
