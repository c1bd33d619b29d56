--------------------------- MODULE BillingProofs ---------------------------
(***************************************************************************)
(* Proofs about Billing, for every set of organizations, subscriptions and *)
(* requests, every grace period and every combination of the hazards.      *)
(***************************************************************************)
EXTENDS Billing, TLAPS

\* What Emit puts on the queue is an event.
LEMMA EmitType ==
  ASSUME TypeOK, NEW s \in Sub,
         NEW new \in [status : Status, plan : Tiers],
         NEW types \in Seq(EventTypes),
         Emit(s, new, types),
         unpaidSince' \in [Sub -> DayOrNever]
  PROVE  TypeOK'
<1>1. stripe' \in [Sub -> [status : Status, plan : Tiers]]
  BY DEF Emit, TypeOK, StripeOK
<1>2. \A i \in DOMAIN types :
        [n |-> sent + i, type |-> types[i], sub |-> s,
         status |-> new.status, plan |-> new.plan] \in Event
  BY DEF TypeOK, StripeOK, Event, Tiers
<1>3. queue' \subseteq Event
  BY <1>2 DEF Emit, TypeOK, StripeOK
<1>4. Len(types) \in Nat
  OBVIOUS
<1>5. StripeOK'
  BY <1>1, <1>3, <1>4 DEF Emit, TypeOK, StripeOK
<1>6. TablesOK' /\ RequestsOK' /\ JobOK'
  BY DEF Emit, TypeOK, TablesOK, RequestsOK, JobOK, tables, callVars, jobVars, Idle
<1> QED
  BY <1>5, <1>6 DEF TypeOK

\* The sequences of event types the actions emit.
LEMMA Emitted ==
  /\ <<"checkout.session.completed">> \in Seq(EventTypes)
  /\ <<"customer.subscription.updated">> \in Seq(EventTypes)
  /\ <<"customer.subscription.deleted">> \in Seq(EventTypes)
  /\ <<"invoice.payment_failed">> \in Seq(EventTypes)
  /\ <<"invoice.payment_failed", "customer.subscription.updated">> \in Seq(EventTypes)
  /\ <<"invoice.paid", "customer.subscription.updated">> \in Seq(EventTypes)
BY DEF EventTypes

\* A statement on a row leaves a row, and the request at its next await.
LEMMA WriteRowType ==
  ASSUME TypeOK, NEW c \in Call, NEW type,
         NEW new \in [status : Status, plan : Tiers, failedAt : DayOrNever],
         NEW next \in Steps \ {"idle"},
         WriteRow(c, type, new, next)
  PROVE  TypeOK'
<1>1. pc[c] # "idle"
  BY DEF WriteRow
<1>2. TablesOK'
  BY DEF WriteRow, TypeOK, TablesOK
<1>3. RequestsOK'
  BY <1>1 DEF WriteRow, TypeOK, RequestsOK, Idle
<1>4. StripeOK' /\ JobOK'
  BY DEF WriteRow, TypeOK, StripeOK, JobOK, stripeVars, jobVars
<1> QED
  BY <1>2, <1>3, <1>4 DEF TypeOK

\* A request that ends is idle and at no event.
LEMMA EndType ==
  ASSUME TypeOK, NEW c \in Call,
         pc' = [pc EXCEPT ![c] = "idle"],
         event' = [event EXCEPT ![c] = NoEvent],
         seen' = seen,
         processed' \subseteq Nat
  PROVE  RequestsOK'
<1>1. pc' \in [Call -> Steps]
  BY DEF TypeOK, RequestsOK, Steps
<1>2. \A d \in Call : pc'[d] # "idle" => event'[d] \in Event
  BY DEF TypeOK, RequestsOK, Idle
<1> QED
  BY <1>1, <1>2 DEF TypeOK, RequestsOK, Idle

\* The state is well typed whatever Stripe sends and whatever fails.
THEOREM TypeCorrect == Spec => []TypeOK
<1> USE BillingAssumption
<1>1. Init => TypeOK
  BY DEF Init, TypeOK, StripeOK, TablesOK, RequestsOK, JobOK, Idle, Steps, Status,
         Tiers, DayOrNever
<1>2. TypeOK /\ [Next]_vars => TypeOK'
  <2> SUFFICES ASSUME TypeOK, [Next]_vars PROVE TypeOK'
    OBVIOUS
  <2>1. ASSUME NEW s \in Sub, NEW p \in Plan, Checkout(s, p) PROVE TypeOK'
    <3>1. [status |-> "active", plan |-> p] \in [status : Status, plan : Tiers]
      BY DEF Status, Tiers
    <3> QED
      BY <2>1, <3>1, EmitType, Emitted DEF Checkout, TypeOK, StripeOK
  <2>2. ASSUME NEW s \in Sub, NEW p \in Plan, ChangePlan(s, p) PROVE TypeOK'
    <3>1. [status |-> "active", plan |-> p] \in [status : Status, plan : Tiers]
      BY DEF Status, Tiers
    <3> QED
      BY <2>2, <3>1, EmitType, Emitted DEF ChangePlan, TypeOK, StripeOK
  <2>3. ASSUME NEW s \in Sub, Cancel(s) PROVE TypeOK'
    <3>1. [stripe[s] EXCEPT !.status = "canceled"] \in [status : Status, plan : Tiers]
      BY DEF TypeOK, StripeOK, Status
    <3> QED
      BY <2>3, <3>1, EmitType, Emitted DEF Cancel, TypeOK, StripeOK
  <2>4. ASSUME NEW s \in Sub, PaymentFails(s) PROVE TypeOK'
    <3>1. [stripe[s] EXCEPT !.status = "past_due"] \in [status : Status, plan : Tiers]
      BY DEF TypeOK, StripeOK, Status
    <3>2. unpaidSince' \in [Sub -> DayOrNever]
      BY <2>4 DEF PaymentFails, TypeOK, StripeOK, JobOK, DayOrNever
    <3> QED
      BY <2>4, <3>1, <3>2, EmitType, Emitted DEF PaymentFails
  <2>5. ASSUME NEW s \in Sub, RetryFails(s) PROVE TypeOK'
    <3>1. stripe[s] \in [status : Status, plan : Tiers]
      BY DEF TypeOK, StripeOK
    <3> QED
      BY <2>5, <3>1, EmitType, Emitted DEF RetryFails, TypeOK, StripeOK
  <2>6. ASSUME NEW s \in Sub, PaymentSucceeds(s) PROVE TypeOK'
    <3>1. [stripe[s] EXCEPT !.status = "active"] \in [status : Status, plan : Tiers]
      BY DEF TypeOK, StripeOK, Status
    <3> QED
      BY <2>6, <3>1, EmitType, Emitted DEF PaymentSucceeds, TypeOK, StripeOK
  <2>7. ASSUME NEW s \in Sub, JobDowngrade(s) PROVE TypeOK'
    <3>1. TablesOK'
      BY <2>7 DEF JobDowngrade, TypeOK, TablesOK, Tiers
    <3> QED
      BY <2>7, <3>1 DEF JobDowngrade, TypeOK, StripeOK, RequestsOK, JobOK, Idle,
                        stripeVars, callVars
  <2>8. ASSUME NEW s \in Sub, JobCancel(s) PROVE TypeOK'
    <3>1. TablesOK'
      BY <2>8 DEF JobCancel, TypeOK, TablesOK, Status
    <3> QED
      BY <2>8, <3>1 DEF JobCancel, TypeOK, StripeOK, RequestsOK, JobOK, Idle,
                        stripeVars, callVars
  <2>9. ASSUME NEW e \in queue, SkipDuplicate(e) PROVE TypeOK'
    BY <2>9 DEF SkipDuplicate, TypeOK, StripeOK, TablesOK, RequestsOK, JobOK, Idle,
                tables, callVars, jobVars
  <2>10. ASSUME NEW e \in queue, NEW c \in Call, Receive(c, e) PROVE TypeOK'
    <3>1. e \in Event /\ e.n \in Nat
      BY DEF TypeOK, StripeOK, Event
    <3>2. pc' \in [Call -> Steps]
      BY <2>10 DEF Receive, TypeOK, RequestsOK, Steps
    <3>3. RequestsOK'
      BY <2>10, <3>1, <3>2 DEF Receive, TypeOK, RequestsOK, Idle
    <3> QED
      BY <2>10, <3>1, <3>3 DEF Receive, TypeOK, StripeOK, TablesOK, JobOK,
                               stripeVars, jobVars
  <2>11. ASSUME NEW c \in Call, Lookup(c) PROVE TypeOK'
    <3>1. event[c] \in Event
      BY <2>11 DEF Lookup, TypeOK, RequestsOK, Idle
    <3>2. /\ stripe[event[c].sub] \in [status : Status, plan : Tiers]
          /\ [status |-> event[c].status, plan |-> event[c].plan]
                \in [status : Status, plan : Tiers]
      BY <3>1 DEF TypeOK, StripeOK, Event, Tiers
    <3>3. seen' \in [Call -> [status : Status, plan : Tiers]]
      BY <2>11, <3>2 DEF Lookup, TypeOK, RequestsOK
    <3>4. pc' \in [Call -> Steps]
      BY <2>11 DEF Lookup, TypeOK, RequestsOK, Steps
    <3>5. \A d \in Call : pc'[d] # "idle" => event'[d] \in Event
      BY <2>11, <3>1 DEF Lookup, TypeOK, RequestsOK, Idle
    <3>6. RequestsOK'
      BY <2>11, <3>3, <3>4, <3>5 DEF Lookup, TypeOK, RequestsOK, Idle
    <3> QED
      BY <2>11, <3>6 DEF Lookup, TypeOK, StripeOK, TablesOK, JobOK, stripeVars,
                         tables, jobVars
  <2>12. ASSUME NEW c \in Call, CheckoutWrite(c) PROVE TypeOK'
    <3>1. [status |-> seen[c].status, plan |-> seen[c].plan, failedAt |-> Never]
             \in [status : Status, plan : Tiers, failedAt : DayOrNever]
      BY DEF TypeOK, RequestsOK, DayOrNever
    <3> QED
      BY <2>12, <3>1, WriteRowType DEF CheckoutWrite, Steps
  <2> DEFINE Row(c) == rows[event[c].sub]
  <2>13. ASSUME NEW c \in Call, pc[c] = "writeSub"
         PROVE  /\ Row(c) \in [status : Status, plan : Tiers, failedAt : DayOrNever]
                /\ seen[c] \in [status : Status, plan : Tiers]
                /\ day \in DayOrNever
                /\ Never \in DayOrNever
    BY <2>13 DEF TypeOK, RequestsOK, TablesOK, JobOK, Idle, Event, DayOrNever
  <2>14. ASSUME NEW c \in Call, UpdatedWrite(c) PROVE TypeOK'
    <3>0. pc[c] = "writeSub"
      BY <2>14 DEF UpdatedWrite, WriteRow
    <3>1. IfThere(Row(c), [status |-> seen[c].status, plan |-> seen[c].plan,
                           failedAt |-> Dated(seen[c].status, Row(c))])
             \in [status : Status, plan : Tiers, failedAt : DayOrNever]
      BY <2>13, <3>0 DEF IfThere, Dated
    <3> QED
      BY <2>14, <3>1, WriteRowType DEF UpdatedWrite, Steps
  <2>15. ASSUME NEW c \in Call, DeletedWrite(c) PROVE TypeOK'
    <3>0. pc[c] = "writeSub"
      BY <2>15 DEF DeletedWrite, WriteRow
    <3>1. IfThere(Row(c), [Row(c) EXCEPT !.status = "canceled"])
             \in [status : Status, plan : Tiers, failedAt : DayOrNever]
      BY <2>13, <3>0 DEF IfThere, Status
    <3> QED
      BY <2>15, <3>1, WriteRowType DEF DeletedWrite, Steps
  <2>16. ASSUME NEW c \in Call, PaidWrite(c) PROVE TypeOK'
    <3>0. pc[c] = "writeSub"
      BY <2>16 DEF PaidWrite, WriteRow
    <3>1. IfThere(Row(c), [Row(c) EXCEPT !.failedAt = Never])
             \in [status : Status, plan : Tiers, failedAt : DayOrNever]
      BY <2>13, <3>0 DEF IfThere
    <3> QED
      BY <2>16, <3>1, WriteRowType DEF PaidWrite, Steps
  <2>17. ASSUME NEW c \in Call, PaymentFailedWrite(c) PROVE TypeOK'
    <3>0. pc[c] = "writeSub"
      BY <2>17 DEF PaymentFailedWrite, WriteRow
    <3>1. IfThere(Row(c), [Row(c) EXCEPT !.status = "past_due", !.failedAt = day])
             \in [status : Status, plan : Tiers, failedAt : DayOrNever]
      BY <2>13, <3>0 DEF IfThere, Status
    <3> QED
      BY <2>17, <3>1, WriteRowType DEF PaymentFailedWrite, Steps
  <2>18. ASSUME NEW c \in Call, WriteTier(c) PROVE TypeOK'
    <3>1. NewTier(event[c].type, seen[c]) \in Tiers
      BY DEF TypeOK, RequestsOK, NewTier, Tiers
    <3>2. TablesOK'
      BY <2>18, <3>1 DEF WriteTier, TypeOK, TablesOK
    <3>3. pc' \in [Call -> Steps]
      BY <2>18 DEF WriteTier, TypeOK, RequestsOK, Steps
    <3>4. RequestsOK'
      BY <2>18, <3>3 DEF WriteTier, TypeOK, RequestsOK, Idle
    <3> QED
      BY <2>18, <3>2, <3>4 DEF WriteTier, TypeOK, StripeOK, JobOK, stripeVars, jobVars
  <2>19. ASSUME NEW c \in Call, Answer(c) PROVE TypeOK'
    <3>1. event[c].n \in Nat
      BY <2>19 DEF Answer, TypeOK, RequestsOK, Idle, Event
    <3>2. processed' \subseteq Nat
      BY <2>19, <3>1 DEF Answer, TypeOK, RequestsOK
    <3>3. RequestsOK'
      BY <2>19, <3>2, EndType DEF Answer
    <3> QED
      BY <2>19, <3>3 DEF Answer, TypeOK, StripeOK, TablesOK, JobOK, tables, jobVars
  <2>20. ASSUME NEW c \in Call, LookupThrows(c) \/ Crash(c) PROVE TypeOK'
    <3>1. RequestsOK'
      BY <2>20, EndType DEF LookupThrows, Crash, TypeOK, RequestsOK
    <3> QED
      BY <2>20, <3>1 DEF LookupThrows, Crash, TypeOK, StripeOK, TablesOK, JobOK,
                         stripeVars, tables, jobVars
  <2>21. ASSUME JobStart PROVE TypeOK'
    <3>1. JobOK'
      BY <2>21 DEF JobStart, TypeOK, JobOK
    <3> QED
      BY <2>21, <3>1 DEF JobStart, TypeOK, StripeOK, TablesOK, RequestsOK, Idle,
                         stripeVars, tables, callVars
  <2>22. ASSUME JobCrash PROVE TypeOK'
    BY <2>22 DEF JobCrash, TypeOK, StripeOK, TablesOK, RequestsOK, JobOK, Idle,
                 stripeVars, tables, callVars
  <2>23. ASSUME NextDay PROVE TypeOK'
    BY <2>23 DEF NextDay, TypeOK, StripeOK, TablesOK, RequestsOK, JobOK, Idle,
                 stripeVars, tables, callVars, jobVars
  <2>24. CASE UNCHANGED vars
    BY <2>24 DEF vars, stripeVars, tables, callVars, jobVars, TypeOK, StripeOK,
                 TablesOK, RequestsOK, JobOK, Idle
  <2> QED
    BY <2>1, <2>2, <2>3, <2>4, <2>5, <2>6, <2>7, <2>8, <2>9, <2>10, <2>11, <2>12,
       <2>14, <2>15, <2>16, <2>17, <2>18, <2>19, <2>20, <2>21, <2>22,
       <2>23, <2>24
    DEF Next, RequestStep
<1> QED
  BY <1>1, <1>2, PTL DEF Spec

\* What HandledOnce rests on: an answered event has been logged.
OnceInv == HandledOnce /\ processed \subseteq logged

\* At-least-once delivery is turned into at-most-once handling: whatever is
\* repeated, reordered, overlapping or interrupted, at most one request ever
\* acts on an event.
THEOREM EachEventHandledOnce == Spec => []HandledOnce
<1>1. Init => OnceInv
  BY DEF Init, OnceInv, HandledOnce, Idle
<1>2. TypeOK /\ OnceInv /\ [Next]_vars => OnceInv'
  <2> SUFFICES ASSUME TypeOK, OnceInv, [Next]_vars
               PROVE  OnceInv'
    OBVIOUS
  <2> USE DEF OnceInv
  \* Only the start and the end of a request change what HandledOnce is about.
  <2>1. ASSUME UNCHANGED <<logged, event, processed>>,
               \A c \in Call : Idle(c) => Idle(c)'
        PROVE  OnceInv'
    BY <2>1 DEF HandledOnce, Idle
  <2>2. ASSUME NEW c \in Call,
               pc' = [pc EXCEPT ![c] = "idle"],
               event' = [event EXCEPT ![c] = NoEvent],
               UNCHANGED <<logged, processed>>
        PROVE  OnceInv'
    BY <2>2 DEF HandledOnce, Idle, TypeOK, RequestsOK
  <2>3. ASSUME NEW c \in Call, NEW e \in queue, Receive(c, e)
        PROVE  OnceInv'
    <3>1. /\ event' = [event EXCEPT ![c] = e]
          /\ pc' = [pc EXCEPT ![c] = "lookup"]
          /\ logged' = logged \union {e.n}
          /\ processed' = processed
          /\ e.n \notin logged
      BY <2>3 DEF Receive, IsNewEvent
    <3>2. ASSUME NEW d \in Call \ {c}, ~Idle(d)'
          PROVE  ~Idle(d) /\ event'[d] = event[d]
      BY <3>1, <3>2 DEF Idle, TypeOK, RequestsOK
    <3>3. event'[c] = e
      BY <3>1 DEF TypeOK, RequestsOK
    <3> QED
      BY <3>1, <3>2, <3>3 DEF HandledOnce
  <2>4. ASSUME NEW c \in Call, Answer(c)
        PROVE  OnceInv'
    <3>1. /\ event' = [event EXCEPT ![c] = NoEvent]
          /\ pc' = [pc EXCEPT ![c] = "idle"]
          /\ logged' = logged
          /\ processed' = processed \union {event[c].n}
          /\ ~Idle(c)
      BY <2>4 DEF Answer, tables, Idle
    <3>2. ASSUME NEW d \in Call, ~Idle(d)'
          PROVE  ~Idle(d) /\ event'[d] = event[d] /\ d # c
      BY <3>1, <3>2 DEF Idle, TypeOK, RequestsOK
    <3> QED
      BY <3>1, <3>2 DEF HandledOnce
  <2>5. ASSUME NEW c \in Call, NEW type, NEW new, NEW next,
               WriteRow(c, type, new, next)
        PROVE  OnceInv'
    <3>1. UNCHANGED <<logged, event, processed>> /\ ~Idle(c)
      BY <2>5 DEF WriteRow, Idle
    <3>2. \A d \in Call : Idle(d) => Idle(d)'
      BY <2>5, <3>1 DEF WriteRow, Idle, TypeOK, RequestsOK
    <3> QED
      BY <2>1, <3>1, <3>2
  <2>6. ASSUME NEW c \in Call, Lookup(c) \/ WriteTier(c)
        PROVE  OnceInv'
    <3>1. UNCHANGED <<logged, event, processed>>
      BY <2>6 DEF Lookup, WriteTier, tables
    <3>2. \A d \in Call : Idle(d) => Idle(d)'
      BY <2>6 DEF Lookup, WriteTier, Idle, TypeOK, RequestsOK
    <3> QED
      BY <2>1, <3>1, <3>2
  <2>7. ASSUME NEW c \in Call, RequestStep(c) \/ LookupThrows(c) \/ Crash(c)
        PROVE  OnceInv'
    <3>1. CASE LookupThrows(c) \/ Crash(c)
      BY <2>2, <3>1 DEF LookupThrows, Crash, tables
    <3>2. CASE RequestStep(c)
      BY <2>4, <2>5, <2>6, <3>2 DEF RequestStep, CheckoutWrite, UpdatedWrite,
         DeletedWrite, PaidWrite, PaymentFailedWrite
    <3> QED
      BY <2>7, <3>1, <3>2
  <2>8. ASSUME NEW e \in queue, SkipDuplicate(e)
        PROVE  OnceInv'
    BY <2>8, <2>1 DEF SkipDuplicate, tables, callVars, Idle
  <2>9. ASSUME NEW s \in Sub, NEW new, NEW types, Emit(s, new, types)
        PROVE  OnceInv'
    BY <2>9, <2>1 DEF Emit, tables, callVars, Idle
  <2>10. ASSUME NEW s \in Sub, JobDowngrade(s) \/ JobCancel(s)
         PROVE  OnceInv'
    BY <2>10, <2>1 DEF JobDowngrade, JobCancel, callVars, Idle
  <2>11. ASSUME JobStart \/ JobCrash \/ NextDay \/ UNCHANGED vars
         PROVE  OnceInv'
    BY <2>11, <2>1 DEF JobStart, JobCrash, NextDay, vars, tables, callVars, Idle
  <2> QED
    BY <2>3, <2>7, <2>8, <2>9, <2>10, <2>11
    DEF Next, Cancel, PaymentFails, RetryFails, PaymentSucceeds, Checkout, ChangePlan
<1>3. OnceInv => HandledOnce
  BY DEF OnceInv
<1> QED
  BY <1>1, <1>2, <1>3, TypeCorrect, PTL DEF Spec
=============================================================================
