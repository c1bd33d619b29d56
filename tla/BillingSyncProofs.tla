------------------------- MODULE BillingSyncProofs -------------------------
(***************************************************************************)
(* That the tables follow Stripe: for every set of organizations,          *)
(* subscriptions, plans and requests, when deliveries come one at a time   *)
(* and in order and no handler fails, rows and tiers agree with Stripe     *)
(* whenever nothing is waiting, and the job takes a tier only after the    *)
(* grace period.                                                           *)
(*                                                                         *)
(* Stripe may be ahead of the tables by any number of events.  The         *)
(* invariant therefore says of each subscription that the newest event     *)
(* waiting carries the last word about it, and of the tables only what     *)
(* they hold once that word has been handled.                              *)
(***************************************************************************)
EXTENDS BillingProofs

\* The conditions under which the tables follow Stripe.  Each of the others
\* loses the effect of an event or swaps two of them.  Events may still be
\* late, be sent again after an answer was lost, and charges be retried.
InOrder ==
    Hazards \cap {"overlap", "reorder", "handler_throws", "db_error", "crash"} = {}

\* The events about a subscription that no request has taken up yet.
Waiting(s) == {e \in Undelivered : e.sub = s}

Newest(e, S) == e \in S /\ \A f \in S : f.n <= e.n

\* Events are numbered as they are sent, and taken up in that order.
NumbersOK ==
    /\ \A e \in queue : e.n \in 1 .. sent
    /\ \A e, f \in queue : e.n = f.n => e = f
    /\ logged \subseteq 1 .. sent
    /\ \A e \in Undelivered : \A m \in logged : m < e.n

\* One request or the job is at work, and the rows the job works from are
\* still what it read.
OneAtATime ==
    /\ \A c, d \in Call : ~Idle(c) /\ ~Idle(d) => c = d
    /\ \A c \in Call : ~Idle(c) => JobIdle
    /\ \A c \in Call : ~Idle(c) => event[c].n \in logged
    /\ jobAt # NoSub => jobAt \in overdue
    /\ \A s \in overdue : rows[s].status = "past_due" /\ GraceOver(rows[s])

\* A subscription nobody bought has no row and no events.
Unknown ==
    /\ \A s \in Sub : stripe[s].status = "none" =>
           /\ rows[s].status = "none"
           /\ \A e \in queue : e.sub # s
           /\ \A c \in Call : ~Idle(c) => event[c].sub # s
    /\ \A e \in queue : e.status # "none"
    /\ \A c \in Call : ~Idle(c) => event[c].status # "none"

\* Handling this event, with none after it, leaves the row as Stripe has it.
LastWord(e) ==
    LET now == stripe[e.sub] IN
    \/ now.status = "active" /\ e.type = "checkout.session.completed"
    \/ /\ now.status \in {"active", "past_due"}
       /\ e.type = "customer.subscription.updated"
       /\ now = [status |-> e.status, plan |-> e.plan]
    \/ now.status = "past_due" /\ e.type = "invoice.payment_failed"
    \/ now.status = "canceled" /\ e.type = "customer.subscription.deleted"

\* A newest event has the last word, and where events wait one is the newest.
NewestIsLast ==
    \A s \in Sub :
        /\ Waiting(s) # {} => \E e \in Waiting(s) : Newest(e, Waiting(s))
        /\ \A e \in Waiting(s) : Newest(e, Waiting(s)) => LastWord(e)

\* The request has not written the row yet.
Writing(c) == pc[c] \in {"lookup", "writeSub"}

IsCheckout(e) == e.type = "checkout.session.completed"

\* Updates need a row.  It is there, but for a checkout that comes before
\* every other event about the subscription.
RowExists ==
    /\ \A s \in Sub : rows[s].status = "none" =>
           \/ stripe[s].status = "none"
           \/ \E f \in Waiting(s) : IsCheckout(f) /\ \A g \in Waiting(s) : f.n <= g.n
           \/ \E c \in Call : Writing(c) /\ event[c].sub = s /\ IsCheckout(event[c])
    /\ \A c \in Call : ~Idle(c) /\ ~IsCheckout(event[c])
           => rows[event[c].sub].status # "none"
    /\ \A c \in Call : pc[c] = "writeSub" => seen[c].status # "none"

\* Payments failed at Stripe before today ended.
UnpaidDated ==
    \A s \in Sub : stripe[s].status = "past_due" =>
        unpaidSince[s] \in Nat /\ unpaidSince[s] <= day

\* In sync, and an unpaid row is dated no earlier than the failure.
RowRight(s) ==
    /\ RowInSync(s)
    /\ stripe[s].status = "past_due" =>
           rows[s].failedAt \in Nat /\ unpaidSince[s] <= rows[s].failedAt

\* With no event waiting the row is right, or the request at work on it is
\* about to make it so.
Synced ==
    \A s \in Sub : Waiting(s) = {} =>
        /\ (\A c \in Call : Writing(c) => event[c].sub # s) => RowRight(s)
        /\ \A c \in Call : Writing(c) /\ event[c].sub = s =>
               /\ LastWord(event[c])
               /\ pc[c] = "writeSub" /\
                  event[c].type \in {"checkout.session.completed",
                                     "customer.subscription.updated"}
                      => seen[c] = stripe[s]

RowsInv == /\ NumbersOK /\ OneAtATime /\ Unknown /\ NewestIsLast /\ RowExists
           /\ UnpaidDated /\ Synced

(***************************************************************************)
(* What waits before and after a step.                                     *)
(***************************************************************************)

\* The event of each type that Emit sends.
SentEvent(s, new, types, i) ==
    [n |-> sent + i, type |-> types[i], sub |-> s,
     status |-> new.status, plan |-> new.plan]

\* After Emit the events of that subscription that wait are the old ones and
\* newer ones, the last of which is the newest; no other is touched.
LEMMA EmitWaiting ==
  ASSUME TypeOK, NumbersOK, NEW s \in Sub, NEW new,
         NEW types \in Seq(EventTypes), types # <<>>,
         Emit(s, new, types)
  PROVE  LET last == SentEvent(s, new, types, Len(types)) IN
         /\ \A t \in Sub \ {s} : Waiting(t)' = Waiting(t)
         /\ Undelivered' = Undelivered \union
                {SentEvent(s, new, types, i) : i \in 1 .. Len(types)}
         /\ Waiting(s)' = Waiting(s) \union
                {SentEvent(s, new, types, i) : i \in 1 .. Len(types)}
         /\ last \in Waiting(s)' /\ \A e \in Undelivered' : e.n <= last.n
         /\ \A e \in Waiting(s)' : Newest(e, Waiting(s)') => e = last
         /\ sent \in Nat /\ sent' = sent + Len(types) /\ Len(types) \in Nat \ {0}
         /\ \A i \in 1 .. Len(types) : sent + i \in sent + 1 .. sent'
<1> DEFINE New == {SentEvent(s, new, types, i) : i \in 1 .. Len(types)}
           last == SentEvent(s, new, types, Len(types))
<1>1. Len(types) \in Nat /\ Len(types) # 0 /\ DOMAIN types = 1 .. Len(types)
  OBVIOUS
<1>2. sent \in Nat /\ sent' = sent + Len(types) /\ logged' = logged
  BY DEF Emit, TypeOK, StripeOK, tables
<1>3. queue' = queue \union New
  BY <1>1 DEF Emit, SentEvent
<1>4. \A e \in New : e.n > sent /\ e.sub = s /\ e.n \notin logged
  BY <1>1, <1>2 DEF SentEvent, NumbersOK
<1>5. Undelivered' = Undelivered \union New
  BY <1>2, <1>3, <1>4 DEF Undelivered
<1>6. \A t \in Sub : Waiting(t)' = Waiting(t) \union {e \in New : e.sub = t}
  BY <1>5 DEF Waiting
<1>7. Waiting(s)' = Waiting(s) \union New /\ \A t \in Sub \ {s} : Waiting(t)' = Waiting(t)
  BY <1>4, <1>6
<1>8. last \in New /\ last.n = sent + Len(types)
  BY <1>1 DEF SentEvent
<1>9. ASSUME NEW e \in Waiting(s)', Newest(e, Waiting(s)')
      PROVE  e = last
  <2>1. last.n <= e.n
    BY <1>7, <1>8, <1>9 DEF Newest
  <2>2. CASE e \in Waiting(s)
    <3>1. e.n \in 1 .. sent
      BY <2>2 DEF Waiting, Undelivered, NumbersOK
    <3> QED
      BY <2>1, <3>1, <1>1, <1>2, <1>8
  <2>3. CASE e \in New
    <3>1. PICK i \in 1 .. Len(types) : e = SentEvent(s, new, types, i)
      BY <2>3
    <3>2. e.n = sent + i
      BY <3>1 DEF SentEvent
    <3>3. i = Len(types)
      BY <3>2, <2>1, <1>1, <1>2, <1>8
    <3> QED
      BY <3>1, <3>3
  <2> QED
    BY <1>9, <1>7, <2>2, <2>3
<1>10. \A e \in Undelivered' : e.n <= last.n
  <2>1. \A e \in Undelivered : e.n \in 1 .. sent
    BY DEF Undelivered, NumbersOK
  <2>2. \A e \in New : e.n <= last.n
    BY <1>1, <1>2, <1>8 DEF SentEvent
  <2> QED
    BY <2>1, <2>2, <1>1, <1>2, <1>5, <1>8
<1> QED
  BY <1>1, <1>2, <1>5, <1>7, <1>8, <1>9, <1>10

\* A request takes up the oldest event that waits, and no request is at work.
LEMMA ReceiveWaiting ==
  ASSUME InOrder, TypeOK, NumbersOK, NEW c \in Call, NEW e \in queue, Receive(c, e)
  PROVE  /\ AllIdle
         /\ e \in Event /\ e \in Undelivered
         /\ \A f \in Undelivered : e.n <= f.n
         /\ Undelivered' = Undelivered \ {e}
         /\ \A s \in Sub : Waiting(s)' = Waiting(s) \ {e}
         /\ logged' = logged \union {e.n}
<1>1. /\ AllIdle
      /\ e.n \notin logged
      /\ \A f \in Undelivered : e.n <= f.n
      /\ logged' = logged \union {e.n} /\ queue' = queue
  BY DEF Receive, MayArrive, InOrder, IsNewEvent, stripeVars
<1>2. e \in Event
  BY DEF TypeOK, StripeOK
<1>3. Undelivered' = Undelivered \ {e}
  BY <1>1 DEF Undelivered, NumbersOK
<1> QED
  BY <1>1, <1>2, <1>3 DEF Undelivered, Waiting

\* Events that were taken up leave the queue without being missed.
LEMMA WaitingKept ==
  ASSUME queue' \subseteq queue, logged' = logged,
         \A e \in queue \ queue' : e.n \in logged
  PROVE  Undelivered' = Undelivered /\ \A s \in Sub : Waiting(s)' = Waiting(s)
BY DEF Undelivered, Waiting

(***************************************************************************)
(* RowsInv, one lemma per kind of step.                                    *)
(***************************************************************************)

\* Stripe changes a subscription, and the last event it sends says so.
LEMMA EmitRows ==
  ASSUME TypeOK, RowsInv, NEW s \in Sub,
         NEW new \in [status : Status, plan : Tiers], new.status # "none",
         NEW types \in Seq(EventTypes), types # <<>>,
         Emit(s, new, types),
         \A e : e = SentEvent(s, new, types, Len(types)) => LastWord(e)',
         stripe[s].status = "none" => types = <<"checkout.session.completed">>,
         \A t \in Sub \ {s} : unpaidSince'[t] = unpaidSince[t],
         new.status = "past_due" => unpaidSince'[s] \in Nat /\ unpaidSince'[s] <= day
  PROVE  RowsInv'
<1> DEFINE last == SentEvent(s, new, types, Len(types))
           New == {SentEvent(s, new, types, i) : i \in 1 .. Len(types)}
<1>1. /\ \A t \in Sub \ {s} : Waiting(t)' = Waiting(t)
      /\ Undelivered' = Undelivered \union New
      /\ Waiting(s)' = Waiting(s) \union New
      /\ last \in Waiting(s)' /\ \A e \in Undelivered' : e.n <= last.n
      /\ \A e \in Waiting(s)' : Newest(e, Waiting(s)') => e = last
      /\ sent \in Nat /\ sent' = sent + Len(types) /\ Len(types) \in Nat \ {0}
      /\ \A i \in 1 .. Len(types) : sent + i \in sent + 1 .. sent'
  BY EmitWaiting DEF RowsInv
<1>2. /\ stripe' = [stripe EXCEPT ![s] = new]
      /\ queue' = queue \union New
      /\ UNCHANGED <<logged, rows, tier, pc, event, seen, processed, day,
                     jobDay, overdue, jobAt>>
  BY DEF Emit, tables, callVars, jobVars, SentEvent
<1>3. /\ stripe'[s] = new
      /\ \A t \in Sub \ {s} : stripe'[t] = stripe[t]
  BY <1>2 DEF TypeOK, StripeOK
<1>4. NumbersOK'
  <2>1. \A e \in New : e.n > sent /\ e.n \in 1 .. sent'
    BY <1>1 DEF SentEvent
  <2>2. \A e, f \in New : e.n = f.n => e = f
    BY <1>1 DEF SentEvent
  <2>3. \A e \in queue : e.n \in 1 .. sent
    BY DEF RowsInv, NumbersOK
  <2>4. \A e \in queue' : e.n \in 1 .. sent'
    BY <1>1, <1>2, <2>1, <2>3
  <2>5. \A e, f \in queue' : e.n = f.n => e = f
    BY <1>1, <1>2, <2>1, <2>2, <2>3 DEF RowsInv, NumbersOK
  <2>6. logged' \subseteq 1 .. sent'
    BY <1>1, <1>2 DEF RowsInv, NumbersOK
  <2>7. \A e \in Undelivered' : \A m \in logged' : m < e.n
    BY <1>1, <1>2, <2>1 DEF RowsInv, NumbersOK
  <2> QED
    BY <2>4, <2>5, <2>6, <2>7 DEF NumbersOK
<1>5. OneAtATime'
  BY <1>2 DEF RowsInv, OneAtATime, Idle, JobIdle, GraceOver
<1>6. Unknown'
  <2>1. \A e \in New : e.sub = s /\ e.status # "none"
    BY DEF SentEvent
  <2> QED
    BY <1>2, <1>3, <2>1 DEF RowsInv, Unknown, Idle
<1>7. NewestIsLast'
  <2>1. \A e \in Waiting(s)' : Newest(e, Waiting(s)') => LastWord(e)'
    BY <1>1
  <2>2. ASSUME NEW t \in Sub \ {s}, NEW e \in Waiting(t)', Newest(e, Waiting(t)')
        PROVE  LastWord(e)'
    <3>1. LastWord(e) /\ e.sub = t
      BY <1>1, <2>2 DEF RowsInv, NewestIsLast, Waiting
    <3> QED
      BY <3>1, <1>3 DEF LastWord
  <2>3. Newest(last, Waiting(s)')
    BY <1>1 DEF Newest, Waiting
  <2>4. ASSUME NEW t \in Sub, Waiting(t)' # {}
        PROVE  \E e \in Waiting(t)' : Newest(e, Waiting(t)')
    <3>1. CASE t = s
      BY <3>1, <2>3, <1>1
    <3>2. CASE t # s
      BY <2>4, <3>2, <1>1 DEF RowsInv, NewestIsLast
    <3> QED
      BY <3>1, <3>2
  <2> QED
    BY <2>1, <2>2, <2>4 DEF NewestIsLast, Newest
<1>8. RowExists'
  <2>1. ASSUME NEW t \in Sub, rows[t].status = "none"
        PROVE  \/ stripe'[t].status = "none"
               \/ \E f \in Waiting(t)' : IsCheckout(f) /\ \A g \in Waiting(t)' : f.n <= g.n
               \/ \E c \in Call : Writing(c) /\ event[c].sub = t /\ IsCheckout(event[c])
    <3>1. CASE t # s
      BY <2>1, <3>1, <1>1, <1>3 DEF RowsInv, RowExists
    <3>2. CASE t = s /\ stripe[s].status = "none"
      <4>1. Waiting(s) = {}
        BY <3>2 DEF RowsInv, Unknown, Waiting, Undelivered
      <4>2. types = <<"checkout.session.completed">> /\ Len(types) = 1
        BY <3>2
      <4>3. New = {last} /\ IsCheckout(last)
        BY <4>2 DEF SentEvent, IsCheckout
      <4>4. last.n <= last.n
        BY <1>1, <4>2 DEF SentEvent
      <4> QED
        BY <3>2, <4>1, <4>3, <4>4, <1>1
    <3>3. CASE t = s /\ stripe[s].status # "none"
      <4>1. ASSUME NEW f \in Waiting(s), IsCheckout(f), \A g \in Waiting(s) : f.n <= g.n
            PROVE  f \in Waiting(s)' /\ \A g \in Waiting(s)' : f.n <= g.n
        <5>1. f.n \in 1 .. sent
          BY DEF Waiting, Undelivered, RowsInv, NumbersOK
        <5>2. \A g \in New : g.n > sent /\ g.n \in Nat
          BY <1>1 DEF SentEvent
        <5> QED
          BY <4>1, <5>1, <5>2, <1>1
      <4> QED
        BY <2>1, <3>3, <4>1 DEF RowsInv, RowExists
    <3> QED
      BY <3>1, <3>2, <3>3
  <2> QED
    BY <2>1, <1>2 DEF RowsInv, RowExists, Writing, Idle
<1>9. UnpaidDated'
  BY <1>2, <1>3 DEF RowsInv, UnpaidDated
<1>10. Synced'
  <2>1. ASSUME NEW t \in Sub, Waiting(t)' = {}
        PROVE  /\ t # s /\ Waiting(t) = {}
               /\ stripe'[t] = stripe[t] /\ unpaidSince'[t] = unpaidSince[t]
    BY <2>1, <1>1, <1>3
  <2>2. \A t \in Sub \ {s} : RowRight(t) => RowRight(t)'
    BY <1>2, <1>3 DEF RowRight, RowInSync
  <2>3. ASSUME NEW c \in Call, event[c].sub \in Sub \ {s}, LastWord(event[c])
        PROVE  LastWord(event[c])'
    BY <2>3, <1>2, <1>3 DEF LastWord
  <2> QED
    BY <2>1, <2>2, <2>3, <1>2 DEF RowsInv, Synced, Writing
<1> QED
  BY <1>4, <1>5, <1>6, <1>7, <1>8, <1>9, <1>10 DEF RowsInv

\* A request takes up an event.
LEMMA ReceiveRows ==
  ASSUME InOrder, TypeOK, RowsInv, NEW c \in Call, NEW e \in queue, Receive(c, e)
  PROVE  RowsInv'
<1>1. /\ AllIdle
      /\ e \in Event /\ e \in Undelivered
      /\ \A f \in Undelivered : e.n <= f.n
      /\ Undelivered' = Undelivered \ {e}
      /\ \A s \in Sub : Waiting(s)' = Waiting(s) \ {e}
      /\ logged' = logged \union {e.n}
  BY ReceiveWaiting DEF RowsInv
<1>2. UNCHANGED <<stripe, unpaidSince, queue, sent, rows, seen, day, overdue, jobAt>>
  BY DEF Receive, stripeVars, jobVars
<1>3. /\ pc'[c] = "lookup" /\ event'[c] = e
      /\ \A d \in Call \ {c} : pc'[d] = "idle"
      /\ \A d \in Call : pc[d] = "idle"
      /\ overdue = {}
  BY <1>1 DEF Receive, TypeOK, RequestsOK, AllIdle, Idle, JobIdle
<1>4. /\ e.sub \in Sub /\ e \in Waiting(e.sub) /\ stripe[e.sub].status # "none"
      /\ e.status # "none"
  BY <1>1 DEF Event, Waiting, RowsInv, Unknown
<1>5. NumbersOK'
  <2>1. \A f \in Undelivered' : f.n \in Nat /\ e.n \in Nat /\ f.n # e.n /\ e.n <= f.n
    BY <1>1 DEF RowsInv, NumbersOK, Undelivered
  <2>2. \A f \in Undelivered' : \A m \in logged' : m < f.n
    BY <2>1, <1>1 DEF RowsInv, NumbersOK
  <2>3. e.n \in 1 .. sent
    BY DEF RowsInv, NumbersOK
  <2> QED
    BY <2>2, <2>3, <1>1, <1>2 DEF RowsInv, NumbersOK
<1>6. OneAtATime'
  BY <1>1, <1>2, <1>3 DEF RowsInv, OneAtATime, Idle, JobIdle, TypeOK, JobOK
<1>7. Unknown'
  BY <1>2, <1>3, <1>4 DEF RowsInv, Unknown, Idle
<1>8. NewestIsLast'
  <2>1. ASSUME NEW s \in Sub, NEW f \in Waiting(s)', Newest(f, Waiting(s)')
        PROVE  LastWord(f)'
    <3>1. f \in Waiting(s) /\ f \in Undelivered
      BY <1>1 DEF Waiting
    <3>2. Newest(f, Waiting(s))
      BY <2>1, <3>1, <1>1 DEF Newest
    <3> QED
      BY <3>1, <3>2, <1>2 DEF RowsInv, NewestIsLast, LastWord
  <2>2. ASSUME NEW s \in Sub, Waiting(s)' # {}
        PROVE  \E f \in Waiting(s)' : Newest(f, Waiting(s)')
    <3>1. PICK f \in Waiting(s) : Newest(f, Waiting(s))
      BY <2>2, <1>1 DEF RowsInv, NewestIsLast
    <3>2. PICK g \in Waiting(s) : g # e
      BY <2>2, <1>1
    <3>3. f # e
      <4>1. g \in Undelivered /\ g \in queue /\ e \in queue
        BY <3>2 DEF Waiting, Undelivered
      <4>2. g.n \in Nat /\ e.n \in Nat /\ g.n # e.n /\ e.n <= g.n
        BY <3>2, <4>1, <1>1 DEF RowsInv, NumbersOK
      <4> QED
        BY <3>1, <4>2 DEF Newest
    <3> QED
      BY <3>1, <3>3, <1>1 DEF Newest
  <2> QED
    BY <2>1, <2>2 DEF NewestIsLast
<1>9. RowExists'
  <2>1. rows[e.sub].status = "none" => IsCheckout(e)
    <3>1. ASSUME NEW f \in Waiting(e.sub), \A g \in Waiting(e.sub) : f.n <= g.n
          PROVE  f = e
      <4>1. f.n \in Nat /\ e.n \in Nat /\ f.n <= e.n /\ e.n <= f.n
        BY <3>1, <1>1, <1>4 DEF Waiting, RowsInv, NumbersOK, Undelivered
      <4> QED
        BY <4>1 DEF Waiting, RowsInv, NumbersOK, Undelivered
    <3> QED
      BY <3>1, <1>3, <1>4 DEF RowsInv, RowExists, Writing
  <2>2. ASSUME NEW s \in Sub, rows[s].status = "none", stripe[s].status # "none"
        PROVE  \/ \E f \in Waiting(s)' : IsCheckout(f) /\ \A g \in Waiting(s)' : f.n <= g.n
               \/ s = e.sub /\ IsCheckout(e)
    <3>1. CASE s = e.sub
      BY <3>1, <2>1, <2>2
    <3>2. CASE s # e.sub
      <4>1. Waiting(s)' = Waiting(s)
        BY <3>2, <1>1 DEF Waiting
      <4> QED
        BY <4>1, <2>2, <1>3 DEF RowsInv, RowExists, Writing
    <3> QED
      BY <3>1, <3>2
  <2>3. \A s \in Sub : rows'[s].status = "none" =>
           \/ stripe'[s].status = "none"
           \/ \E f \in Waiting(s)' : IsCheckout(f) /\ \A g \in Waiting(s)' : f.n <= g.n
           \/ \E d \in Call : Writing(d)' /\ event'[d].sub = s /\ IsCheckout(event'[d])
    BY <2>2, <1>2, <1>3 DEF Writing
  <2> QED
    BY <2>1, <2>3, <1>2, <1>3 DEF RowExists, Idle
<1>10. UnpaidDated'
  BY <1>2 DEF RowsInv, UnpaidDated
<1>11. Synced'
  <2>1. ASSUME NEW s \in Sub, Waiting(s)' = {}, s # e.sub
        PROVE  RowRight(s)'
    <3>1. Waiting(s) = {}
      BY <2>1, <1>1 DEF Waiting
    <3>2. RowRight(s)
      BY <3>1, <1>3 DEF RowsInv, Synced, Writing
    <3> QED
      BY <3>2, <1>2 DEF RowRight, RowInSync
  <2>2. ASSUME Waiting(e.sub)' = {}
        PROVE  LastWord(e)'
    <3>1. Waiting(e.sub) = {e}
      BY <2>2, <1>1, <1>4
    <3>2. Newest(e, Waiting(e.sub))
      BY <3>1, <1>1, <1>4 DEF Newest, Waiting, Undelivered
    <3> QED
      BY <3>2, <1>2, <1>4 DEF RowsInv, NewestIsLast, LastWord
  <2> QED
    BY <2>1, <2>2, <1>3, <1>4 DEF Synced, Writing
<1> QED
  BY <1>5, <1>6, <1>7, <1>8, <1>9, <1>10, <1>11 DEF RowsInv

\* A request reads the subscription, at Stripe or from its event.
LEMMA LookupRows ==
  ASSUME TypeOK, RowsInv, NEW c \in Call, Lookup(c)
  PROVE  RowsInv'
<1>1. /\ UNCHANGED <<stripe, unpaidSince, queue, sent, logged, rows, event, day,
                     overdue, jobAt>>
      /\ pc[c] = "lookup" /\ pc'[c] = "writeSub"
      /\ \A d \in Call \ {c} : pc'[d] = pc[d] /\ seen'[d] = seen[d]
  BY DEF Lookup, stripeVars, tables, jobVars, TypeOK, RequestsOK
<1>2. seen'[c] = IF event[c].type \in {"checkout.session.completed", "invoice.paid"}
                 THEN stripe[event[c].sub]
                 ELSE [status |-> event[c].status, plan |-> event[c].plan]
  BY DEF Lookup, TypeOK, RequestsOK
<1>3. /\ \A d \in Call : Idle(d)' <=> Idle(d)
      /\ \A d \in Call : Writing(d)' <=> Writing(d)
      /\ Undelivered' = Undelivered /\ \A s \in Sub : Waiting(s)' = Waiting(s)
  BY <1>1, WaitingKept DEF Idle, Writing
<1>4. /\ event[c].sub \in Sub /\ stripe[event[c].sub].status # "none"
      /\ event[c].status # "none"
  BY <1>1 DEF TypeOK, RequestsOK, Idle, Event, RowsInv, Unknown
<1>5. NumbersOK' /\ OneAtATime' /\ Unknown' /\ NewestIsLast' /\ UnpaidDated'
  <2>1. NumbersOK'
    BY <1>1, <1>3 DEF RowsInv, NumbersOK
  <2>2. OneAtATime'
    BY <1>1, <1>3 DEF RowsInv, OneAtATime, JobIdle, GraceOver
  <2>3. Unknown'
    BY <1>1, <1>3 DEF RowsInv, Unknown
  <2>4. NewestIsLast'
    BY <1>1, <1>3 DEF RowsInv, NewestIsLast, Newest, LastWord
  <2>5. UnpaidDated'
    BY <1>1 DEF RowsInv, UnpaidDated
  <2> QED
    BY <2>1, <2>2, <2>3, <2>4, <2>5
<1>6. RowExists'
  <2>1. seen'[c].status # "none"
    BY <1>2, <1>4
  <2> QED
    BY <2>1, <1>1, <1>3 DEF RowsInv, RowExists
<1>7. Synced'
  <2>1. \A s \in Sub : RowRight(s) => RowRight(s)'
    BY <1>1 DEF RowRight, RowInSync
  <2>2. \A d \in Call : LastWord(event[d]) => LastWord(event[d])'
    BY <1>1 DEF LastWord
  <2>3. ASSUME LastWord(event[c]),
               event[c].type \in {"checkout.session.completed",
                                  "customer.subscription.updated"}
        PROVE  seen'[c] = stripe'[event[c].sub]
    BY <2>3, <1>1, <1>2 DEF LastWord
  <2> QED
    BY <2>1, <2>2, <2>3, <1>1, <1>3 DEF RowsInv, Synced
<1> QED
  BY <1>5, <1>6, <1>7 DEF RowsInv

\* A request writes the row: if no event waits behind it, the row is right.
LEMMA WriteRows ==
  ASSUME InOrder, TypeOK, RowsInv, NEW c \in Call, NEW type,
         NEW s \in Sub, s = event[c].sub,
         NEW new \in [status : Status, plan : Tiers, failedAt : DayOrNever],
         new.status # "none",
         NEW next \in {"writeTier", "answer"},
         WriteRow(c, type, new, next),
         Waiting(s) = {} => RowRight(s)'
  PROVE  RowsInv'
<1>1. /\ UNCHANGED <<stripe, unpaidSince, queue, sent, logged, event, seen, day,
                     overdue, jobAt>>
      /\ pc[c] = "writeSub" /\ pc'[c] = next
      /\ \A d \in Call \ {c} : pc'[d] = pc[d]
      /\ rows' = [rows EXCEPT ![s] = new]
  BY DEF WriteRow, DbError, InOrder, stripeVars, jobVars, TypeOK, RequestsOK
<1>2. /\ s \in Sub /\ stripe[s].status # "none"
      /\ overdue = {}
      /\ \A d \in Call \ {c} : pc[d] = "idle"
  BY <1>1 DEF TypeOK, RequestsOK, Idle, Event, RowsInv, Unknown, OneAtATime, JobIdle
<1>3. /\ rows'[s] = new
      /\ \A t \in Sub \ {s} : rows'[t] = rows[t]
  BY <1>1, <1>2 DEF TypeOK, TablesOK
<1>4. /\ \A d \in Call : Idle(d)' <=> Idle(d)
      /\ \A d \in Call : ~Writing(d)'
      /\ Undelivered' = Undelivered /\ \A t \in Sub : Waiting(t)' = Waiting(t)
  BY <1>1, <1>2, WaitingKept DEF Idle, Writing
<1>5. NumbersOK' /\ OneAtATime' /\ Unknown' /\ NewestIsLast' /\ UnpaidDated'
  <2>1. NumbersOK'
    BY <1>1, <1>4 DEF RowsInv, NumbersOK
  <2>2. OneAtATime'
    BY <1>1, <1>2, <1>4 DEF RowsInv, OneAtATime, JobIdle
  <2>3. Unknown'
    BY <1>1, <1>2, <1>3, <1>4 DEF RowsInv, Unknown
  <2>4. NewestIsLast'
    BY <1>1, <1>4 DEF RowsInv, NewestIsLast, Newest, LastWord
  <2>5. UnpaidDated'
    BY <1>1 DEF RowsInv, UnpaidDated
  <2> QED
    BY <2>1, <2>2, <2>3, <2>4, <2>5
<1>6. RowExists'
  <2>1. ASSUME NEW t \in Sub, rows'[t].status = "none", stripe[t].status # "none"
        PROVE  \E f \in Waiting(t) : IsCheckout(f) /\ \A g \in Waiting(t) : f.n <= g.n
    <3>1. t # s /\ rows[t].status = "none"
      BY <2>1, <1>3
    <3>2. ~\E d \in Call : Writing(d) /\ event[d].sub = t
      BY <3>1, <1>2 DEF Writing
    <3> QED
      BY <2>1, <3>1, <3>2 DEF RowsInv, RowExists
  <2>2. \A d \in Call : ~Idle(d)' => event'[d].sub = s
    BY <1>1, <1>2, <1>4 DEF Idle
  <2>3. \A d \in Call : pc'[d] # "writeSub"
    BY <1>1, <1>2
  <2> QED
    BY <2>1, <2>2, <2>3, <1>1, <1>3, <1>4 DEF RowExists
<1>7. Synced'
  <2>1. ASSUME NEW t \in Sub \ {s}, Waiting(t) = {}
        PROVE  RowRight(t)'
    <3>1. RowRight(t)
      BY <2>1, <1>2 DEF RowsInv, Synced, Writing
    <3> QED
      BY <3>1, <1>1, <1>3 DEF RowRight, RowInSync
  <2> QED
    BY <2>1, <1>2, <1>4 DEF Synced
<1> QED
  BY <1>5, <1>6, <1>7 DEF RowsInv

\* Each handler's statement on the row.
LEMMA HandlerRows ==
  ASSUME InOrder, TypeOK, RowsInv, NEW c \in Call,
         \/ CheckoutWrite(c) \/ UpdatedWrite(c) \/ DeletedWrite(c)
         \/ PaidWrite(c) \/ PaymentFailedWrite(c)
  PROVE  RowsInv'
<1> USE BillingAssumption
<1>0. PICK s : s = event[c].sub
  OBVIOUS
<1> DEFINE row == rows[s]
<1>1. pc[c] = "writeSub" /\ s \in Sub /\ UNCHANGED <<stripe, unpaidSince>>
  BY <1>0 DEF CheckoutWrite, UpdatedWrite, DeletedWrite, PaidWrite, PaymentFailedWrite,
         WriteRow, stripeVars, TypeOK, RequestsOK, Idle, Event
<1>2. /\ row \in [status : Status, plan : Tiers, failedAt : DayOrNever]
      /\ seen[c] \in [status : Status, plan : Tiers]
      /\ stripe[s] \in [status : Status, plan : Tiers]
      /\ day \in Nat /\ day \in DayOrNever /\ Never \in DayOrNever
  BY <1>1 DEF TypeOK, StripeOK, TablesOK, RequestsOK, JobOK, DayOrNever
<1>3. /\ seen[c].status # "none"
      /\ ~IsCheckout(event[c]) => row.status # "none"
      /\ stripe[s].status = "past_due" => unpaidSince[s] \in Nat /\ unpaidSince[s] <= day
  BY <1>0, <1>1 DEF RowsInv, RowExists, Idle, UnpaidDated
<1>4. ASSUME Waiting(s) = {}
      PROVE  /\ LastWord(event[c])
             /\ event[c].type \in {"checkout.session.completed",
                                   "customer.subscription.updated"}
                   => seen[c] = stripe[s]
  BY <1>0, <1>1, <1>4 DEF RowsInv, Synced, Writing
<1>5. ASSUME NEW type, NEW new, NEW next, WriteRow(c, type, new, next)
      PROVE  event[c].type = type /\ rows'[s] = new
  BY <1>0, <1>1, <1>5 DEF WriteRow, DbError, InOrder, TypeOK, TablesOK
<1>6. CASE CheckoutWrite(c)
  <2> DEFINE new == [status |-> seen[c].status, plan |-> seen[c].plan, failedAt |-> Never]
  <2>1. WriteRow(c, "checkout.session.completed", new, "writeTier")
    BY <1>6, <1>0 DEF CheckoutWrite
  <2>2. /\ new \in [status : Status, plan : Tiers, failedAt : DayOrNever]
        /\ event[c].type = "checkout.session.completed" /\ rows'[s] = new
    BY <2>1, <1>2, <1>5
  <2>3. new.status # "none"
    BY <2>2, <1>3 DEF IsCheckout
  <2>4. Waiting(s) = {} => RowRight(s)'
    BY <2>2, <1>1, <1>2, <1>4, <1>0 DEF LastWord, RowRight, RowInSync
  <2> QED
    BY <2>1, <2>2, <2>3, <2>4, WriteRows, <1>0, <1>1
<1>7. CASE UpdatedWrite(c)
  <2> DEFINE new == IfThere(row, [status |-> seen[c].status, plan |-> seen[c].plan,
                                  failedAt |-> Dated(seen[c].status, row)])
  <2>1. WriteRow(c, "customer.subscription.updated", new, "writeTier")
    BY <1>7, <1>0 DEF UpdatedWrite
  <2>2. /\ new \in [status : Status, plan : Tiers, failedAt : DayOrNever]
        /\ event[c].type = "customer.subscription.updated" /\ rows'[s] = new
    BY <2>1, <1>2, <1>5 DEF IfThere, Dated
  <2>3. new = [status |-> seen[c].status, plan |-> seen[c].plan,
               failedAt |-> IF seen[c].status = "past_due" THEN day ELSE Never]
    BY <2>2, <1>3 DEF IsCheckout, IfThere, Dated
  <2> HIDE DEF new
  <2>4. ASSUME Waiting(s) = {} PROVE RowRight(s)'
    <3>1. seen[c] = stripe[s] /\ stripe[s].status \in {"active", "past_due"}
      BY <2>2, <2>4, <1>0, <1>4 DEF LastWord
    <3>2. rows'[s] = [status |-> stripe[s].status, plan |-> stripe[s].plan,
                      failedAt |-> IF stripe[s].status = "past_due" THEN day ELSE Never]
      BY <2>2, <2>3, <3>1
    <3> HIDE DEF row
    <3>3. CASE stripe[s].status = "active"
      BY <3>2, <3>3, <1>1 DEF RowRight, RowInSync
    <3>4. CASE stripe[s].status = "past_due"
      <4>1. rows'[s].status = "past_due" /\ rows'[s].failedAt = day
        BY <3>2, <3>4
      <4>2. unpaidSince[s] \in Nat /\ unpaidSince[s] <= day /\ day \in Nat
        BY <3>4, <1>2, <1>3
      <4> QED
        BY <3>4, <4>1, <4>2, <1>1 DEF RowRight, RowInSync
    <3> QED
      BY <3>1, <3>3, <3>4
  <2>5. new.status # "none"
    BY <2>3, <2>2, <1>0, <1>1, <1>2, <1>3
  <2> QED
    BY <2>1, <2>2, <2>4, <2>5, WriteRows, <1>0, <1>1
<1>8. CASE DeletedWrite(c)
  <2> DEFINE new == IfThere(row, [row EXCEPT !.status = "canceled"])
  <2>1. WriteRow(c, "customer.subscription.deleted", new, "writeTier")
    BY <1>8, <1>0 DEF DeletedWrite
  <2>2. event[c].type = "customer.subscription.deleted" /\ rows'[s] = new
    BY <2>1, <1>5
  <2>3. new.status = "canceled"
    BY <2>2, <1>2, <1>3 DEF IsCheckout, IfThere
  <2>4. new \in [status : Status, plan : Tiers, failedAt : DayOrNever]
    BY <1>2 DEF IfThere, Status
  <2>5. Waiting(s) = {} => RowRight(s)'
    BY <2>2, <2>3, <1>1, <1>2, <1>4, <1>0 DEF LastWord, RowRight, RowInSync
  <2> QED
    BY <2>1, <2>3, <2>4, <2>5, WriteRows, <1>0, <1>1
<1>9. CASE PaidWrite(c)
  <2> DEFINE new == IfThere(row, [row EXCEPT !.failedAt = Never])
  <2>1. WriteRow(c, "invoice.paid", new, "answer")
    BY <1>9, <1>0 DEF PaidWrite
  <2>2. event[c].type = "invoice.paid" /\ rows'[s] = new
    BY <2>1, <1>5
  <2>3. new.status # "none"
    BY <2>2, <1>2, <1>3 DEF IsCheckout, IfThere
  <2>4. new \in [status : Status, plan : Tiers, failedAt : DayOrNever]
    BY <1>2 DEF IfThere
  \* An update of the subscription waits behind it.
  <2>5. Waiting(s) # {}
    BY <2>2, <1>4, <1>0 DEF LastWord
  <2> QED
    BY <2>1, <2>3, <2>4, <2>5, WriteRows, <1>0, <1>1
<1>10. CASE PaymentFailedWrite(c)
  <2> DEFINE new == IfThere(row, [row EXCEPT !.status = "past_due", !.failedAt = day])
  <2>1. WriteRow(c, "invoice.payment_failed", new, "answer")
    BY <1>10, <1>0 DEF PaymentFailedWrite
  <2>2. event[c].type = "invoice.payment_failed" /\ rows'[s] = new
    BY <2>1, <1>5
  <2>3. new.status = "past_due" /\ new.failedAt = day
    BY <2>2, <1>2, <1>3 DEF IsCheckout, IfThere
  <2>4. new \in [status : Status, plan : Tiers, failedAt : DayOrNever]
    BY <1>2 DEF IfThere, Status
  <2>5. Waiting(s) = {} => RowRight(s)'
    BY <2>2, <2>3, <1>1, <1>2, <1>3, <1>4, <1>0 DEF LastWord, RowRight, RowInSync
  <2> QED
    BY <2>1, <2>3, <2>4, <2>5, WriteRows, <1>0, <1>1
<1> QED
  BY <1>6, <1>7, <1>8, <1>9, <1>10

\* Steps that write no row and take up no event: a request that is past its
\* row moves on or ends, a repeated event is skipped, the job starts, writes
\* a tier or the next day comes.
LEMMA QuietRows ==
  ASSUME TypeOK, RowsInv,
         UNCHANGED <<stripe, unpaidSince, sent, logged, rows, seen>>,
         queue' \subseteq queue, \A e \in queue \ queue' : e.n \in logged,
         \A c \in Call : ~Idle(c)' => ~Idle(c) /\ event'[c] = event[c],
         \A c \in Call : Writing(c)' <=> Writing(c),
         \A c \in Call : Writing(c) => pc'[c] = pc[c],
         day' \in Nat, day <= day',
         OneAtATime'
  PROVE  RowsInv'
<1>1. Undelivered' = Undelivered /\ \A s \in Sub : Waiting(s)' = Waiting(s)
  BY WaitingKept
<1>2. \A c \in Call : Writing(c)' => event'[c] = event[c]
  BY DEF Writing, Idle
<1>3. NumbersOK'
  BY <1>1 DEF RowsInv, NumbersOK
<1>4. Unknown'
  BY DEF RowsInv, Unknown
<1>5. NewestIsLast'
  BY <1>1 DEF RowsInv, NewestIsLast, Newest, LastWord
<1>6. RowExists'
  <2>1. \A c \in Call : pc'[c] = "writeSub" => pc[c] = "writeSub" /\ event'[c] = event[c]
    BY <1>2 DEF Writing
  <2>2. ASSUME NEW s \in Sub, NEW c \in Call, Writing(c), event[c].sub = s,
               IsCheckout(event[c])
        PROVE  Writing(c)' /\ event'[c].sub = s /\ IsCheckout(event'[c])
    BY <2>2, <1>2
  <2> QED
    BY <2>1, <2>2, <1>1 DEF RowsInv, RowExists
<1>7. UnpaidDated'
  BY DEF RowsInv, UnpaidDated, TypeOK, JobOK
<1>8. Synced'
  <2>1. \A s \in Sub : RowRight(s) => RowRight(s)'
    BY DEF RowRight, RowInSync
  <2>2. ASSUME NEW c \in Call, Writing(c), LastWord(event[c])
        PROVE  LastWord(event[c])'
    BY <2>2, <1>2 DEF LastWord
  <2> QED
    BY <2>1, <2>2, <1>1, <1>2 DEF RowsInv, Synced
<1> QED
  BY <1>3, <1>4, <1>5, <1>6, <1>7, <1>8 DEF RowsInv

\* The job cancels a row.  When no event waits, Stripe agrees that the
\* subscription is unpaid.
LEMMA JobCancelRows ==
  ASSUME InOrder, TypeOK, RowsInv, NEW s \in Sub, JobCancel(s)
  PROVE  RowsInv'
<1> USE BillingAssumption
<1>1. /\ UNCHANGED <<stripe, unpaidSince, queue, sent, logged, pc, event, seen, day>>
      /\ s \in overdue
      /\ overdue' = overdue \ {s} /\ jobAt' = NoSub
      /\ rows' = [rows EXCEPT ![s].status = "canceled"]
  BY DEF JobCancel, DbError, InOrder, stripeVars, callVars, RowsInv, OneAtATime
<1>2. \A c \in Call : Idle(c) /\ ~Writing(c) /\ Idle(c)' /\ ~Writing(c)'
  BY <1>1 DEF RowsInv, OneAtATime, JobIdle, Idle, Writing
<1>3. /\ rows'[s].status = "canceled" /\ rows'[s].failedAt = rows[s].failedAt
      /\ \A t \in Sub \ {s} : rows'[t] = rows[t]
  BY <1>1 DEF TypeOK, TablesOK
<1>4. Undelivered' = Undelivered /\ \A t \in Sub : Waiting(t)' = Waiting(t)
  BY <1>1, WaitingKept
<1>5. stripe[s].status # "none" /\ rows[s].status = "past_due"
  BY <1>1 DEF RowsInv, OneAtATime, Unknown
<1>6. NumbersOK'
  BY <1>1, <1>4 DEF RowsInv, NumbersOK
<1>7. OneAtATime'
  BY <1>1, <1>2, <1>3 DEF RowsInv, OneAtATime, GraceOver
<1>8. Unknown'
  BY <1>1, <1>2, <1>3, <1>5 DEF RowsInv, Unknown
<1>9. NewestIsLast'
  BY <1>1, <1>4 DEF RowsInv, NewestIsLast, Newest, LastWord
<1>10. RowExists'
  <2>1. ASSUME NEW t \in Sub, rows'[t].status = "none", stripe[t].status # "none"
        PROVE  \E f \in Waiting(t) : IsCheckout(f) /\ \A g \in Waiting(t) : f.n <= g.n
    <3>1. rows[t].status = "none"
      BY <2>1, <1>3
    <3> QED
      BY <2>1, <3>1, <1>2 DEF RowsInv, RowExists
  <2>2. \A c \in Call : pc'[c] = "idle"
    BY <1>2 DEF Idle
  <2> QED
    BY <2>1, <2>2, <1>1, <1>4 DEF RowExists, Idle
<1>11. UnpaidDated'
  BY <1>1 DEF RowsInv, UnpaidDated
<1>12. Synced'
  <2>1. ASSUME NEW t \in Sub, Waiting(t) = {} PROVE RowRight(t)'
    <3>1. RowRight(t)
      BY <2>1, <1>2 DEF RowsInv, Synced
    <3>2. CASE t # s
      BY <3>1, <3>2, <1>1, <1>3 DEF RowRight, RowInSync
    <3>3. CASE t = s
      <4>1. stripe[s].status = "past_due"
        <5>1. stripe[s].status \in {"active", "past_due", "canceled"}
          BY <1>5 DEF TypeOK, StripeOK, Status
        <5>2. RowInSync(s)
          BY <3>1, <3>3 DEF RowRight
        <5>3. ASSUME stripe[s].status = "active" PROVE FALSE
          <6>1. rows[s] = [status |-> "active", plan |-> stripe[s].plan, failedAt |-> Never]
            BY <5>2, <5>3 DEF RowInSync
          <6> QED
            BY <6>1, <1>5
        <5>4. stripe[s].status # "canceled"
          BY <5>2, <1>5 DEF RowInSync
        <5> QED
          BY <5>1, <5>3, <5>4
      <4> QED
        BY <3>1, <3>3, <4>1, <1>1, <1>3 DEF RowRight, RowInSync
    <3> QED
      BY <3>2, <3>3
  <2> QED
    BY <2>1, <1>2, <1>4 DEF Synced
<1> QED
  BY <1>6, <1>7, <1>8, <1>9, <1>10, <1>11, <1>12 DEF RowsInv

\* Nobody has bought anything.
LEMMA RowsInit == Init => RowsInv
<1> SUFFICES ASSUME Init PROVE RowsInv
  OBVIOUS
<1> USE BillingAssumption
<1>1. /\ queue = {} /\ logged = {} /\ overdue = {} /\ jobAt = NoSub
      /\ \A s \in Sub : Waiting(s) = {} /\ stripe[s].status = "none"
                        /\ rows[s].status = "none"
      /\ \A c \in Call : pc[c] = "idle"
  BY DEF Init, Waiting, Undelivered
<1>2. NumbersOK /\ OneAtATime /\ Unknown
  BY <1>1 DEF NumbersOK, OneAtATime, Unknown, Undelivered, Idle
<1>3. NewestIsLast /\ RowExists /\ UnpaidDated
  BY <1>1 DEF NewestIsLast, RowExists, UnpaidDated, Idle
<1>4. Synced
  BY <1>1 DEF Synced, RowRight, RowInSync, Writing
<1> QED
  BY <1>2, <1>3, <1>4 DEF RowsInv

\* What Stripe does keeps RowsInv.
LEMMA StripeRows ==
  ASSUME TypeOK, RowsInv, NEW s \in Sub,
         \/ Cancel(s) \/ PaymentFails(s) \/ RetryFails(s) \/ PaymentSucceeds(s)
         \/ \E p \in Plan : Checkout(s, p) \/ ChangePlan(s, p)
  PROVE  RowsInv'
<1>0. /\ stripe[s] \in [status : Status, plan : Tiers] /\ day \in Nat
      /\ unpaidSince \in [Sub -> DayOrNever]
      /\ stripe[s].status = "past_due" =>
             unpaidSince[s] \in Nat /\ unpaidSince[s] <= day
  BY DEF TypeOK, StripeOK, JobOK, RowsInv, UnpaidDated
<1>1. ASSUME NEW p \in Plan, Checkout(s, p) PROVE RowsInv'
  <2> DEFINE new == [status |-> "active", plan |-> p]
             types == <<"checkout.session.completed">>
  <2>1. Emit(s, new, types) /\ unpaidSince' = unpaidSince
    BY <1>1 DEF Checkout
  <2>2. new \in [status : Status, plan : Tiers] /\ types \in Seq(EventTypes)
    BY Emitted DEF Status, Tiers
  <2>3. \A e : e = SentEvent(s, new, types, Len(types)) => LastWord(e)'
    BY <2>1 DEF SentEvent, LastWord, Emit, TypeOK, StripeOK
  <2> QED
    BY <2>1, <2>2, <2>3, EmitRows
<1>2. ASSUME NEW p \in Plan, ChangePlan(s, p) PROVE RowsInv'
  <2> DEFINE new == [status |-> "active", plan |-> p]
             types == <<"customer.subscription.updated">>
  <2>1. Emit(s, new, types) /\ unpaidSince' = unpaidSince /\ stripe[s].status # "none"
    BY <1>2 DEF ChangePlan
  <2>2. new \in [status : Status, plan : Tiers] /\ types \in Seq(EventTypes)
    BY Emitted DEF Status, Tiers
  <2>3. \A e : e = SentEvent(s, new, types, Len(types)) => LastWord(e)'
    BY <2>1 DEF SentEvent, LastWord, Emit, TypeOK, StripeOK
  <2> QED
    BY <2>1, <2>2, <2>3, EmitRows
<1>3. CASE Cancel(s)
  <2> DEFINE new == [stripe[s] EXCEPT !.status = "canceled"]
             types == <<"customer.subscription.deleted">>
  <2>1. Emit(s, new, types) /\ unpaidSince' = unpaidSince /\ stripe[s].status # "none"
    BY <1>3 DEF Cancel
  <2>2. /\ new \in [status : Status, plan : Tiers] /\ types \in Seq(EventTypes)
        /\ new.status = "canceled"
    BY <1>0, Emitted DEF Status
  <2>3. \A e : e = SentEvent(s, new, types, Len(types)) => LastWord(e)'
    BY <2>1, <2>2 DEF SentEvent, LastWord, Emit, TypeOK, StripeOK
  <2> QED
    BY <2>1, <2>2, <2>3, EmitRows
<1>4. CASE PaymentFails(s)
  <2> DEFINE new == [stripe[s] EXCEPT !.status = "past_due"]
             types == <<"invoice.payment_failed", "customer.subscription.updated">>
  <2>1. /\ Emit(s, new, types) /\ stripe[s].status # "none"
        /\ unpaidSince' = [unpaidSince EXCEPT ![s] = day]
    BY <1>4 DEF PaymentFails
  <2>2. /\ new \in [status : Status, plan : Tiers] /\ types \in Seq(EventTypes)
        /\ new.status = "past_due" /\ new = [status |-> new.status, plan |-> new.plan]
    BY <1>0, Emitted DEF Status
  <2>3. \A e : e = SentEvent(s, new, types, Len(types)) => LastWord(e)'
    BY <2>1, <2>2 DEF SentEvent, LastWord, Emit, TypeOK, StripeOK
  <2>4. /\ \A t \in Sub \ {s} : unpaidSince'[t] = unpaidSince[t]
        /\ unpaidSince'[s] \in Nat /\ unpaidSince'[s] <= day
    BY <2>1, <1>0
  <2>5. types # <<>> /\ new.status # "none" /\ (stripe[s].status = "none" => FALSE)
    BY <2>1, <2>2
  <2> HIDE DEF new, types
  <2> QED
    BY <2>1, <2>2, <2>3, <2>4, <2>5, EmitRows
<1>5. CASE RetryFails(s)
  <2> DEFINE types == <<"invoice.payment_failed">>
  <2>1. Emit(s, stripe[s], types) /\ unpaidSince' = unpaidSince
        /\ stripe[s].status = "past_due"
    BY <1>5 DEF RetryFails
  <2>2. types \in Seq(EventTypes)
    BY Emitted
  <2>3. \A e : e = SentEvent(s, stripe[s], types, Len(types)) => LastWord(e)'
    BY <2>1 DEF SentEvent, LastWord, Emit, TypeOK, StripeOK
  <2> QED
    BY <2>1, <2>2, <2>3, <1>0, EmitRows
<1>6. CASE PaymentSucceeds(s)
  <2> DEFINE new == [stripe[s] EXCEPT !.status = "active"]
             types == <<"invoice.paid", "customer.subscription.updated">>
  <2>1. Emit(s, new, types) /\ unpaidSince' = unpaidSince /\ stripe[s].status # "none"
    BY <1>6 DEF PaymentSucceeds
  <2>2. /\ new \in [status : Status, plan : Tiers] /\ types \in Seq(EventTypes)
        /\ new.status = "active" /\ new = [status |-> new.status, plan |-> new.plan]
    BY <1>0, Emitted DEF Status
  <2>3. \A e : e = SentEvent(s, new, types, Len(types)) => LastWord(e)'
    BY <2>1, <2>2 DEF SentEvent, LastWord, Emit, TypeOK, StripeOK
  <2> QED
    BY <2>1, <2>2, <2>3, EmitRows
<1> QED
  BY <1>1, <1>2, <1>3, <1>4, <1>5, <1>6

\* Requests past their row, repeated events, the job's other steps and the
\* next day keep RowsInv.
LEMMA OtherRows ==
  ASSUME InOrder, TypeOK, RowsInv,
         \/ \E e \in queue : SkipDuplicate(e)
         \/ \E c \in Call : WriteTier(c) \/ Answer(c)
         \/ \E s \in Sub : JobDowngrade(s)
         \/ JobStart \/ NextDay \/ UNCHANGED vars
  PROVE  RowsInv'
<1> USE BillingAssumption
<1>0. day \in Nat /\ pc \in [Call -> Steps] /\ overdue \subseteq Sub
  BY DEF TypeOK, RequestsOK, JobOK
<1>1. ASSUME NEW e \in queue, SkipDuplicate(e) PROVE RowsInv'
  <2>1. /\ UNCHANGED <<stripe, unpaidSince, sent, tables, callVars, day, jobVars>>
        /\ queue' = queue \ {e} /\ e.n \in logged
    BY <1>1 DEF SkipDuplicate, IsNewEvent
  <2>2. OneAtATime'
    BY <2>1 DEF tables, callVars, jobVars, RowsInv, OneAtATime, Idle, JobIdle, GraceOver
  <2> QED
    BY <2>1, <2>2, <1>0, QuietRows DEF tables, callVars, jobVars, Idle, Writing
<1>2. ASSUME NEW c \in Call, WriteTier(c) PROVE RowsInv'
  <2>1. /\ UNCHANGED <<stripe, unpaidSince, queue, sent, logged, rows, event, seen,
                       processed, day, jobDay, overdue, jobAt>>
        /\ pc[c] = "writeTier" /\ pc'[c] = "answer"
        /\ \A d \in Call \ {c} : pc'[d] = pc[d]
    BY <1>2, <1>0 DEF WriteTier, stripeVars, jobVars
  <2>2. OneAtATime'
    BY <2>1 DEF RowsInv, OneAtATime, Idle, JobIdle, GraceOver
  <2> QED
    BY <2>1, <2>2, <1>0, QuietRows DEF Idle, Writing
<1>3. ASSUME NEW c \in Call, Answer(c) PROVE RowsInv'
  <2>1. /\ UNCHANGED <<stripe, unpaidSince, sent, logged, rows, seen, day, jobDay,
                       overdue, jobAt>>
        /\ queue' \subseteq queue /\ queue \ queue' \subseteq {event[c]}
        /\ pc[c] = "answer" /\ pc'[c] = "idle"
        /\ \A d \in Call \ {c} : pc'[d] = pc[d] /\ event'[d] = event[d]
    BY <1>3, <1>0 DEF Answer, tables, jobVars, TypeOK, RequestsOK
  <2>2. event[c].n \in logged
    BY <2>1 DEF RowsInv, OneAtATime, Idle
  <2>3. OneAtATime'
    BY <2>1 DEF RowsInv, OneAtATime, Idle, JobIdle, GraceOver
  <2> QED
    BY <2>1, <2>2, <2>3, <1>0, QuietRows DEF Idle, Writing
<1>4. ASSUME NEW s \in Sub, JobDowngrade(s) PROVE RowsInv'
  <2>1. /\ UNCHANGED <<stripe, unpaidSince, queue, sent, logged, rows, pc, event, seen,
                       processed, day, jobDay, overdue>>
        /\ s \in overdue /\ jobAt' = s
    BY <1>4 DEF JobDowngrade, stripeVars, callVars
  <2>2. OneAtATime'
    BY <2>1 DEF RowsInv, OneAtATime, Idle, JobIdle, GraceOver
  <2> QED
    BY <2>1, <2>2, <1>0, QuietRows DEF Idle, Writing
<1>5. CASE JobStart
  <2>1. /\ UNCHANGED <<stripe, unpaidSince, queue, sent, logged, rows, pc, event, seen,
                       processed, day, jobAt>>
        /\ \A c \in Call : Idle(c)
        /\ overdue' = {s \in Sub : rows[s].status = "past_due" /\ GraceOver(rows[s])}
    BY <1>5 DEF JobStart, InOrder, stripeVars, tables, callVars
  <2>2. jobAt' # NoSub => jobAt' \in overdue'
    BY <2>1, <1>0 DEF RowsInv, OneAtATime
  <2>3. OneAtATime'
    BY <2>1, <2>2 DEF RowsInv, OneAtATime, Idle, JobIdle, GraceOver
  <2> QED
    BY <2>1, <2>3, <1>0, QuietRows DEF Idle, Writing
<1>6. CASE NextDay
  <2>1. /\ UNCHANGED <<stripe, unpaidSince, queue, sent, logged, rows, pc, event, seen,
                       processed, jobDay, overdue, jobAt>>
        /\ overdue = {} /\ day' = day + 1
    BY <1>6 DEF NextDay, JobIdle, stripeVars, tables, callVars, jobVars
  <2>2. OneAtATime'
    BY <2>1 DEF RowsInv, OneAtATime, Idle, JobIdle
  <2> QED
    BY <2>1, <2>2, <1>0, QuietRows DEF Idle, Writing
<1>7. CASE UNCHANGED vars
  <2>1. UNCHANGED <<stripe, unpaidSince, queue, sent, logged, rows, pc, event, seen,
                    day, overdue, jobAt>>
    BY <1>7 DEF vars, stripeVars, tables, callVars, jobVars
  <2>2. OneAtATime'
    BY <2>1 DEF RowsInv, OneAtATime, Idle, JobIdle, GraceOver
  <2> QED
    BY <2>1, <2>2, <1>0, QuietRows DEF Idle, Writing
<1> QED
  BY <1>1, <1>2, <1>3, <1>4, <1>5, <1>6, <1>7

\* RowsInv is inductive.
LEMMA RowsStep ==
  ASSUME InOrder, TypeOK, RowsInv, [Next]_vars
  PROVE  RowsInv'
<1>1. ASSUME NEW c \in Call, RequestStep(c) PROVE RowsInv'
  BY <1>1, LookupRows, HandlerRows, OtherRows DEF RequestStep
<1>2. ~JobCrash /\ \A c \in Call : ~LookupThrows(c) /\ ~Crash(c)
  BY DEF InOrder, JobCrash, LookupThrows, Crash
<1> QED
  BY <1>1, <1>2, StripeRows, JobCancelRows, ReceiveRows, OtherRows DEF Next

\* A state of RowsInv in which nothing is under way is in sync.
LEMMA RowsInvSynced ==
  ASSUME RowsInv PROVE RowsInSync
BY DEF RowsInv, Synced, RowsInSync, Quiet, AllIdle, Waiting, Undelivered, Idle, Writing,
       RowRight

\* Migration 028:35: the subscriptions table tracks what Stripe knows.  When
\* deliveries come one at a time and in order and no handler fails, the rows
\* agree with Stripe whenever every event has been handled, whatever was
\* repeated, retried or late on the way.
THEOREM SubscriptionsInSync == ASSUME InOrder PROVE Spec => []RowsInSync
<1>1. TypeOK /\ RowsInv /\ [Next]_vars => RowsInv'
  BY RowsStep
<1> QED
  BY <1>1, RowsInit, RowsInvSynced, TypeCorrect, PTL DEF Spec

\* Only JobDowngrade moves the job on to a subscription.
LEMMA JobMoves ==
  ASSUME TypeOK, [Next]_vars, NEW s \in Sub, jobAt = NoSub, jobAt' = s
  PROVE  JobDowngrade(s)
<1> USE BillingAssumption
<1>1. ~UNCHANGED jobAt
  OBVIOUS
<1>2. \A t \in Sub : JobDowngrade(t) => t = s
  BY DEF JobDowngrade
<1>3. /\ \A t \in Sub : ~JobCancel(t) /\ \A new, types : ~Emit(t, new, types)
      /\ ~JobCrash /\ ~JobStart /\ ~NextDay /\ ~UNCHANGED vars
  BY <1>1 DEF JobCancel, Emit, JobCrash, JobStart, NextDay, jobVars, vars
<1>4. \A c \in Call : /\ ~Lookup(c) /\ ~WriteTier(c) /\ ~Answer(c)
                      /\ ~LookupThrows(c) /\ ~Crash(c)
                      /\ \A type, new, next : ~WriteRow(c, type, new, next)
  BY <1>1 DEF Lookup, WriteTier, Answer, LookupThrows, Crash, WriteRow, jobVars
<1>5. \A e \in queue : ~SkipDuplicate(e) /\ \A c \in Call : ~Receive(c, e)
  BY <1>1 DEF SkipDuplicate, Receive, jobVars
<1> QED
  BY <1>2, <1>3, <1>4, <1>5, ZenonT(60)
  DEF Next, RequestStep, CheckoutWrite, UpdatedWrite, DeletedWrite, PaidWrite,
      PaymentFailedWrite, Cancel, PaymentFails, RetryFails, PaymentSucceeds,
      Checkout, ChangePlan

\* A subscription the job works on, with no event waiting, is unpaid at Stripe
\* and has been for the grace period.
LEMMA OverdueIsUnpaid ==
  ASSUME TypeOK, RowsInv, NEW s \in overdue, Waiting(s) = {}
  PROVE  stripe[s].status = "past_due" /\ day - unpaidSince[s] >= Grace
<1> USE BillingAssumption
<1>1. /\ s \in Sub /\ day \in Nat /\ rows[s].status = "past_due"
      /\ rows[s].failedAt # Never /\ day - rows[s].failedAt >= Grace
      /\ rows[s].failedAt \in Nat
  BY DEF TypeOK, JobOK, TablesOK, RowsInv, OneAtATime, GraceOver, DayOrNever
<1>2. \A c \in Call : ~Writing(c)
  BY DEF RowsInv, OneAtATime, JobIdle, Idle, Writing
<1>3. RowRight(s)
  BY <1>1, <1>2 DEF RowsInv, Synced
<1>4. stripe[s].status = "past_due"
  <2>1. stripe[s].status \in Status
    BY <1>1 DEF TypeOK, StripeOK
  <2>2. RowInSync(s)
    BY <1>3 DEF RowRight
  <2>3. ASSUME stripe[s].status = "active" PROVE FALSE
    <3>1. rows[s] = [status |-> "active", plan |-> stripe[s].plan, failedAt |-> Never]
      BY <2>2, <2>3 DEF RowInSync
    <3> QED
      BY <3>1, <1>1
  <2>4. stripe[s].status # "none" /\ stripe[s].status # "canceled"
    BY <2>2, <1>1 DEF RowInSync
  <2> QED
    BY <2>1, <2>3, <2>4 DEF Status
<1>5. unpaidSince[s] \in Nat /\ unpaidSince[s] <= rows[s].failedAt
  BY <1>1, <1>3, <1>4 DEF RowRight, RowsInv, UnpaidDated
<1> QED
  BY <1>1, <1>4, <1>5

\* "Your organization will be automatically downgraded" at the end of a 7-day
\* grace period: under the same conditions the job takes no organization's
\* tier before it has been unpaid at Stripe for that long.
THEOREM GraceIsKept == ASSUME InOrder PROVE Spec => GraceIsGiven
<1>1. TypeOK /\ RowsInv /\ [Next]_vars => RowsInv'
  BY RowsStep
<1>2. TypeOK /\ RowsInv /\ [Next]_vars =>
        [\A s \in Sub :
            /\ jobAt = NoSub
            /\ jobAt' = s
            /\ \A e \in Undelivered : e.sub # s
            => /\ stripe[s].status # "active"
               /\ day - unpaidSince[s] >= Grace]_vars
  <2> SUFFICES ASSUME TypeOK, RowsInv, [Next]_vars, NEW s \in Sub, jobAt = NoSub,
                      jobAt' = s, \A e \in Undelivered : e.sub # s
               PROVE  stripe[s].status # "active" /\ day - unpaidSince[s] >= Grace
    OBVIOUS
  <2>1. s \in overdue
    BY JobMoves DEF JobDowngrade
  <2>2. Waiting(s) = {}
    BY DEF Waiting
  <2> QED
    BY <2>1, <2>2, OverdueIsUnpaid
<1> QED
  BY <1>1, <1>2, RowsInit, TypeCorrect, PTL DEF Spec, GraceIsGiven

(***************************************************************************)
(* The tiers of the organizations.                                         *)
(***************************************************************************)

\* No organization has two subscriptions that are live at once.
OneLive ==
    \A s, t \in Sub :
        /\ OrgOf[s] = OrgOf[t]
        /\ stripe[s].status \in {"active", "past_due"}
        /\ stripe[t].status \in {"active", "past_due"}
        => s = t

\* The events that write a tier, and those of an organization that wait.
TierTypes == {"checkout.session.completed", "customer.subscription.updated",
              "customer.subscription.deleted"}
TierEvents(o) == {e \in Undelivered : OrgOf[e.sub] = o /\ e.type \in TierTypes}

\* Handling this event, with none after it, leaves the tier as Stripe has it.
TierWord(e) ==
    LET o == OrgOf[e.sub] IN
    /\ \A s \in Paying(o) :
           /\ e.sub = s
           /\ e.type # "customer.subscription.deleted"
           /\ e.type = "customer.subscription.updated" => e.plan = stripe[s].plan
    /\ Live(o) = {} => e.type = "customer.subscription.deleted"

TierRight(o, t) ==
    /\ \A s \in Paying(o) : t = stripe[s].plan
    /\ Live(o) = {} => t = Free

\* The request has still to write a tier.
AtTier(c) ==
    pc[c] \in {"lookup", "writeSub", "writeTier"} /\ event[c].type \in TierTypes

NewestTierWord ==
    \A o \in Org : \A e \in TierEvents(o) :
        Newest(e, TierEvents(o)) => TierWord(e)

\* With no tier event waiting the tier is right, or the request at work on it
\* is about to make it so.
TierSynced ==
    \A o \in Org : TierEvents(o) = {} =>
        /\ (\A c \in Call : AtTier(c) => OrgOf[event[c].sub] # o)
               => TierRight(o, tier[o])
        /\ \A c \in Call : AtTier(c) /\ OrgOf[event[c].sub] = o =>
               /\ TierWord(event[c])
               /\ pc[c] # "lookup" => TierRight(o, NewTier(event[c].type, seen[c]))

TierInv ==
    /\ NewestTierWord
    /\ TierSynced
    /\ \A c \in Call : pc[c] = "writeTier" => event[c].type \in TierTypes

\* Stripe changes a subscription and sends an event that writes the tier last.
LEMMA EmitTier ==
  ASSUME TypeOK, RowsInv, TierInv, NEW s \in Sub, NEW new,
         NEW types \in Seq(EventTypes), types # <<>>,
         Emit(s, new, types),
         types[Len(types)] \in TierTypes,
         \A e : e = SentEvent(s, new, types, Len(types)) => TierWord(e)'
  PROVE  TierInv'
<1> DEFINE last == SentEvent(s, new, types, Len(types))
           New == {SentEvent(s, new, types, i) : i \in 1 .. Len(types)}
<1>1. /\ Undelivered' = Undelivered \union New
      /\ Waiting(s)' = Waiting(s) \union New
      /\ last \in Waiting(s)' /\ \A e \in Undelivered' : e.n <= last.n
      /\ \A e \in Waiting(s)' : Newest(e, Waiting(s)') => e = last
      /\ sent \in Nat /\ sent' = sent + Len(types) /\ Len(types) \in Nat \ {0}
  BY EmitWaiting DEF RowsInv
<1>2. /\ stripe' = [stripe EXCEPT ![s] = new]
      /\ UNCHANGED <<tier, pc, event, seen>>
  BY DEF Emit, tables, callVars
<1>3. \A t \in Sub \ {s} : stripe'[t] = stripe[t]
  BY <1>2 DEF TypeOK, StripeOK
<1>4. ASSUME NEW o \in Org, o # OrgOf[s]
      PROVE  /\ TierEvents(o)' = TierEvents(o)
             /\ Paying(o)' = Paying(o) /\ Live(o)' = Live(o)
             /\ \A t \in Paying(o) : stripe'[t] = stripe[t]
  <2>1. \A e \in New : e.sub = s
    BY DEF SentEvent
  <2>2. TierEvents(o)' = TierEvents(o)
    BY <1>1, <1>4, <2>1 DEF TierEvents
  <2>3. Live(o)' = Live(o)
    BY <1>3, <1>4 DEF Live
  <2>4. \A t \in Live(o) : stripe'[t] = stripe[t]
    BY <1>3, <1>4 DEF Live
  <2> QED
    BY <2>2, <2>3, <2>4 DEF Paying
<1>5. ASSUME NEW o \in Org, o = OrgOf[s]
      PROVE  /\ last \in TierEvents(o)'
             /\ \A e \in TierEvents(o)' : Newest(e, TierEvents(o)') => e = last
  <2>1. last \in TierEvents(o)'
    <3>1. last.sub = s /\ last.type \in TierTypes
      BY DEF SentEvent
    <3>2. last \in Undelivered'
      BY <1>1 DEF Waiting
    <3> HIDE DEF last
    <3> QED
      BY <3>1, <3>2, <1>5 DEF TierEvents
  <2>2. ASSUME NEW e \in TierEvents(o)', Newest(e, TierEvents(o)')
        PROVE  e = last
    <3>1. e \in Undelivered' /\ last.n <= e.n /\ e.n <= last.n
      BY <2>1, <2>2, <1>1 DEF TierEvents, Newest
    <3>2. last.n = sent + Len(types)
      BY DEF SentEvent
    <3>3. CASE e \in Undelivered
      <4>1. e.n \in 1 .. sent
        BY <3>3 DEF Undelivered, RowsInv, NumbersOK
      <4> QED
        BY <3>1, <3>2, <4>1, <1>1
    <3>4. CASE e \in New
      <4>1. PICK i \in 1 .. Len(types) : e = SentEvent(s, new, types, i)
        BY <3>4
      <4>2. e.n = sent + i
        BY <4>1 DEF SentEvent
      <4>3. i = Len(types)
        BY <4>2, <3>1, <3>2, <1>1
      <4> QED
        BY <4>1, <4>3
    <3> QED
      BY <3>1, <3>3, <3>4, <1>1
  <2> QED
    BY <2>1, <2>2
<1>6. NewestTierWord'
  <2>1. ASSUME NEW o \in Org, o # OrgOf[s], NEW e \in TierEvents(o), TierWord(e)
        PROVE  TierWord(e)'
    <3>1. OrgOf[e.sub] = o
      BY <2>1 DEF TierEvents
    <3> QED
      BY <2>1, <3>1, <1>4 DEF TierWord
  <2>2. ASSUME NEW o \in Org, NEW e \in TierEvents(o)', Newest(e, TierEvents(o)')
        PROVE  TierWord(e)'
    <3>1. CASE o = OrgOf[s]
      BY <2>2, <3>1, <1>5
    <3>2. CASE o # OrgOf[s]
      BY <2>1, <2>2, <3>2, <1>4 DEF TierInv, NewestTierWord
    <3> QED
      BY <3>1, <3>2
  <2> QED
    BY <2>2 DEF NewestTierWord
<1>7. TierSynced'
  <2>1. ASSUME NEW o \in Org, TierEvents(o)' = {}
        PROVE  o # OrgOf[s] /\ TierEvents(o) = {}
    BY <2>1, <1>4, <1>5
  <2>2. \A o \in Org : o # OrgOf[s] => \A t : TierRight(o, t) => TierRight(o, t)'
    BY <1>4 DEF TierRight
  <2>3. ASSUME NEW o \in Org, o # OrgOf[s], NEW c \in Call, OrgOf[event[c].sub] = o,
               TierWord(event[c])
        PROVE  TierWord(event[c])'
    BY <2>3, <1>2, <1>4 DEF TierWord
  <2>4. \A c \in Call : AtTier(c)' <=> AtTier(c)
    BY <1>2 DEF AtTier
  <2>5. ASSUME NEW o \in Org, TierEvents(o)' = {},
               \A c \in Call : AtTier(c)' => OrgOf[event'[c].sub] # o
        PROVE  TierRight(o, tier[o])'
    <3>1. TierRight(o, tier[o])
      BY <2>1, <2>4, <2>5, <1>2 DEF TierInv, TierSynced
    <3> QED
      BY <2>1, <2>5, <3>1, <1>2, <1>4 DEF TierRight
  <2>6. ASSUME NEW o \in Org, TierEvents(o)' = {}, NEW c \in Call, AtTier(c)',
               OrgOf[event'[c].sub] = o
        PROVE  /\ TierWord(event[c])'
               /\ pc'[c] # "lookup" => TierRight(o, NewTier(event[c].type, seen[c]))'
    <3>1. /\ TierWord(event[c])
          /\ pc[c] # "lookup" => TierRight(o, NewTier(event[c].type, seen[c]))
      BY <2>1, <2>4, <2>6, <1>2 DEF TierInv, TierSynced
    <3> QED
      BY <2>1, <2>3, <2>6, <3>1, <1>2, <1>4 DEF TierRight, NewTier
  <2> QED
    BY <2>5, <2>6, Zenon DEF TierSynced
<1> QED
  BY <1>2, <1>6, <1>7 DEF TierInv

\* Steps that change nothing the tiers depend on.
LEMMA SameTier ==
  ASSUME TierInv, UNCHANGED <<stripe, tier>>,
         \A o \in Org : TierEvents(o)' = TierEvents(o),
         \A c \in Call : AtTier(c)' <=> AtTier(c),
         \A c \in Call : AtTier(c) =>
             /\ event'[c] = event[c] /\ seen'[c] = seen[c]
             /\ pc'[c] # "lookup" => pc[c] # "lookup",
         \A c \in Call : pc'[c] = "writeTier" => event'[c].type \in TierTypes
  PROVE  TierInv'
<1>1. /\ \A o \in Org : Live(o)' = Live(o) /\ Paying(o)' = Paying(o)
      /\ \A o \in Org : \A t : TierRight(o, t)' <=> TierRight(o, t)
  BY DEF Live, Paying, TierRight
<1>2. \A e : TierWord(e)' <=> TierWord(e)
  BY DEF Live, Paying, TierWord
<1>3. NewestTierWord'
  BY <1>2 DEF TierInv, NewestTierWord, Newest
<1>4. TierSynced'
  <2>1. ASSUME NEW o \in Org, TierEvents(o)' = {},
               \A c \in Call : AtTier(c)' => OrgOf[event'[c].sub] # o
        PROVE  TierRight(o, tier[o])'
    <3>1. TierRight(o, tier[o])
      BY <2>1 DEF TierInv, TierSynced
    <3> QED
      BY <3>1 DEF TierRight, Live, Paying
  <2>2. ASSUME NEW o \in Org, TierEvents(o)' = {}, NEW c \in Call, AtTier(c)',
               OrgOf[event'[c].sub] = o
        PROVE  /\ TierWord(event[c])'
               /\ pc'[c] # "lookup" => TierRight(o, NewTier(event[c].type, seen[c]))'
    <3>1. /\ TierWord(event[c])
          /\ pc'[c] # "lookup" => TierRight(o, NewTier(event[c].type, seen[c]))
          /\ event'[c] = event[c] /\ seen'[c] = seen[c]
      BY <2>2 DEF TierInv, TierSynced
    <3> QED
      BY <3>1 DEF TierWord, TierRight, NewTier, Live, Paying
  <2> QED
    BY <2>1, <2>2, Zenon DEF TierSynced
<1> QED
  BY <1>3, <1>4 DEF TierInv

\* A request takes up an event.
LEMMA ReceiveTier ==
  ASSUME InOrder, TypeOK, RowsInv, TierInv, NEW c \in Call, NEW e \in queue,
         Receive(c, e)
  PROVE  TierInv'
<1>1. /\ AllIdle
      /\ e \in Event /\ e \in Undelivered
      /\ \A f \in Undelivered : e.n <= f.n
      /\ Undelivered' = Undelivered \ {e}
  BY ReceiveWaiting DEF RowsInv
<1>2. UNCHANGED <<stripe, tier, seen>>
  BY DEF Receive, stripeVars
<1>3. /\ pc'[c] = "lookup" /\ event'[c] = e
      /\ \A d \in Call \ {c} : pc'[d] = "idle"
      /\ \A d \in Call : pc[d] = "idle"
  BY <1>1 DEF Receive, TypeOK, RequestsOK, AllIdle, Idle
<1>4. \A o \in Org : TierEvents(o)' = TierEvents(o) \ {e}
  BY <1>1 DEF TierEvents
<1>5. \A f : TierWord(f) => TierWord(f)'
  BY <1>2 DEF Live, Paying, TierWord
<1>6. NewestTierWord'
  <2>1. ASSUME NEW o \in Org, NEW f \in TierEvents(o)', Newest(f, TierEvents(o)')
        PROVE  TierWord(f)'
    <3>1. f \in TierEvents(o) /\ f \in Undelivered
      BY <1>4 DEF TierEvents
    <3>2. Newest(f, TierEvents(o))
      BY <2>1, <3>1, <1>1, <1>4 DEF Newest
    <3> QED
      BY <3>1, <3>2, <1>5 DEF TierInv, NewestTierWord
  <2> QED
    BY <2>1 DEF NewestTierWord
<1>7. TierSynced'
  <2>1. ASSUME NEW o \in Org, TierEvents(o)' = {}, TierEvents(o) = {}
        PROVE  TierRight(o, tier[o])' /\ ~(e.type \in TierTypes /\ OrgOf[e.sub] = o)
    <3>1. TierRight(o, tier[o])
      BY <2>1, <1>3 DEF TierInv, TierSynced, AtTier
    <3>2. ~(e.type \in TierTypes /\ OrgOf[e.sub] = o)
      BY <2>1, <1>1 DEF TierEvents
    <3> QED
      BY <3>1, <3>2, <1>2 DEF TierRight, Live, Paying
  <2>2. ASSUME NEW o \in Org, TierEvents(o)' = {}, TierEvents(o) # {}
        PROVE  TierWord(e)' /\ e.type \in TierTypes /\ OrgOf[e.sub] = o
    <3>1. TierEvents(o) = {e}
      BY <2>2, <1>4
    <3>2. Newest(e, TierEvents(o)) /\ e.type \in TierTypes /\ OrgOf[e.sub] = o
      <4>1. e.n <= e.n
        BY <1>1
      <4> QED
        BY <3>1, <4>1 DEF Newest, TierEvents
    <3> QED
      BY <3>1, <3>2, <1>5 DEF TierInv, NewestTierWord
  <2>3. /\ AtTier(c)' <=> e.type \in TierTypes
        /\ \A d \in Call \ {c} : ~AtTier(d)'
    BY <1>3 DEF AtTier
  <2>4. ASSUME NEW o \in Org, TierEvents(o)' = {},
               \A d \in Call : AtTier(d)' => OrgOf[event'[d].sub] # o
        PROVE  TierRight(o, tier[o])'
    BY <2>1, <2>2, <2>3, <2>4, <1>3
  <2>5. ASSUME NEW o \in Org, TierEvents(o)' = {}, NEW d \in Call, AtTier(d)',
               OrgOf[event'[d].sub] = o
        PROVE  TierWord(event[d])' /\ pc'[d] = "lookup"
    <3>1. d = c
      BY <2>3, <2>5
    <3>2. \A f : f = e => TierWord(f)'
      BY <2>1, <2>2, <2>3, <2>5, <3>1, <1>3
    <3> QED
      BY <3>1, <3>2, <1>3
  <2> QED
    BY <2>4, <2>5, Zenon DEF TierSynced
<1> QED
  BY <1>3, <1>6, <1>7 DEF TierInv

\* A request reads the subscription whose plan names the tier.
LEMMA LookupTier ==
  ASSUME TypeOK, RowsInv, TierInv, NEW c \in Call, Lookup(c)
  PROVE  TierInv'
<1>1. /\ UNCHANGED <<stripe, tier, queue, logged, event>>
      /\ pc[c] = "lookup" /\ pc'[c] = "writeSub"
      /\ \A d \in Call \ {c} : pc'[d] = pc[d] /\ seen'[d] = seen[d]
      /\ seen'[c] = IF event[c].type \in {"checkout.session.completed", "invoice.paid"}
                    THEN stripe[event[c].sub]
                    ELSE [status |-> event[c].status, plan |-> event[c].plan]
  BY DEF Lookup, stripeVars, tables, TypeOK, RequestsOK
<1>2. /\ \A d \in Call : AtTier(d)' <=> AtTier(d)
      /\ \A o \in Org : TierEvents(o)' = TierEvents(o)
  BY <1>1 DEF AtTier, TierEvents, Undelivered
<1>3. /\ \A f : TierWord(f) => TierWord(f)'
      /\ \A o \in Org : \A t : TierRight(o, t) => TierRight(o, t)'
  BY <1>1 DEF Live, Paying, TierWord, TierRight
<1>4. ASSUME NEW o \in Org, OrgOf[event[c].sub] = o, TierWord(event[c]), AtTier(c)
      PROVE  TierRight(o, NewTier(event[c].type, seen'[c]))
  <2>1. CASE event[c].type = "customer.subscription.deleted"
    BY <1>4, <2>1 DEF TierWord, TierRight, NewTier
  <2>2. CASE event[c].type = "customer.subscription.updated"
    <3>1. NewTier(event[c].type, seen'[c]) = event[c].plan
      BY <2>2, <1>1 DEF NewTier
    <3> QED
      BY <1>4, <2>2, <3>1 DEF TierWord, TierRight
  <2>3. CASE event[c].type = "checkout.session.completed"
    <3>1. NewTier(event[c].type, seen'[c]) = stripe[event[c].sub].plan
      BY <2>3, <1>1 DEF NewTier
    <3> QED
      BY <1>4, <2>3, <3>1 DEF TierWord, TierRight
  <2> QED
    BY <1>4, <2>1, <2>2, <2>3 DEF AtTier, TierTypes
<1>5. NewestTierWord'
  BY <1>2, <1>3 DEF TierInv, NewestTierWord, Newest
<1>6. TierSynced'
  <2>1. ASSUME NEW o \in Org, TierEvents(o)' = {},
               \A d \in Call : AtTier(d)' => OrgOf[event'[d].sub] # o
        PROVE  TierRight(o, tier[o])'
    <3>1. TierRight(o, tier[o])
      BY <2>1, <1>1, <1>2 DEF TierInv, TierSynced
    <3> QED
      BY <3>1, <1>1 DEF TierRight, Live, Paying
  <2>2. ASSUME NEW o \in Org, TierEvents(o)' = {}, NEW d \in Call, AtTier(d)',
               OrgOf[event'[d].sub] = o
        PROVE  /\ TierWord(event[d])'
               /\ pc'[d] # "lookup" => TierRight(o, NewTier(event[d].type, seen[d]))'
    <3>1. TierWord(event[d]) /\ AtTier(d) /\ OrgOf[event[d].sub] = o
      BY <2>2, <1>1, <1>2 DEF TierInv, TierSynced
    <3>2. pc'[d] # "lookup" => TierRight(o, NewTier(event[d].type, seen'[d]))
      <4>1. CASE d = c
        BY <3>1, <4>1, <1>4
      <4>2. CASE d # c
        BY <2>2, <3>1, <4>2, <1>1, <1>2 DEF TierInv, TierSynced
      <4> QED
        BY <4>1, <4>2
    <3>3. TierWord(event[d])'
      BY <3>1, <1>1 DEF TierWord, Live, Paying
    <3>4. pc'[d] # "lookup" => TierRight(o, NewTier(event[d].type, seen[d]))'
      BY <3>2, <1>1 DEF TierRight, Live, Paying, NewTier
    <3> QED
      BY <3>3, <3>4
  <2> QED
    BY <2>1, <2>2, Zenon DEF TierSynced
<1>7. \A d \in Call : pc'[d] = "writeTier" => event'[d].type \in TierTypes
  BY <1>1 DEF TierInv
<1> QED
  BY <1>5, <1>6, <1>7 DEF TierInv

\* A request writes the tier it found.
LEMMA WriteTierTier ==
  ASSUME InOrder, TypeOK, RowsInv, TierInv, NEW c \in Call, WriteTier(c)
  PROVE  TierInv'
<1> DEFINE org == OrgOf[event[c].sub]
           new == NewTier(event[c].type, seen[c])
<1> USE BillingAssumption
<1>1. /\ UNCHANGED <<stripe, queue, logged, event, seen>>
      /\ pc[c] = "writeTier" /\ pc'[c] = "answer"
      /\ \A d \in Call \ {c} : pc'[d] = pc[d]
      /\ tier' = [tier EXCEPT ![org] = new]
  BY DEF WriteTier, DbError, InOrder, stripeVars, TypeOK, RequestsOK
<1>2. /\ org \in Org /\ tier'[org] = new
      /\ \A o \in Org \ {org} : tier'[o] = tier[o]
  BY <1>1 DEF TypeOK, TablesOK, RequestsOK, Idle, Event
<1>3. /\ \A d \in Call \ {c} : pc[d] = "idle"
      /\ AtTier(c) /\ \A d \in Call : AtTier(d) => d = c
      /\ \A d \in Call : ~AtTier(d)'
  BY <1>1 DEF RowsInv, OneAtATime, Idle, AtTier, TierInv
<1>4. \A o \in Org : TierEvents(o)' = TierEvents(o)
  BY <1>1 DEF TierEvents, Undelivered
<1>5. \A f : TierWord(f) => TierWord(f)'
  BY <1>1 DEF Live, Paying, TierWord
<1>6. NewestTierWord'
  BY <1>4, <1>5 DEF TierInv, NewestTierWord, Newest
<1>7. ASSUME NEW o \in Org, TierEvents(o)' = {}
      PROVE  TierRight(o, tier[o])'
  <2>1. TierRight(o, tier'[o])
    <3>1. CASE o = org
      BY <1>7, <3>1, <1>1, <1>2, <1>3, <1>4 DEF TierInv, TierSynced
    <3>2. CASE o # org
      BY <1>7, <3>2, <1>2, <1>3, <1>4 DEF TierInv, TierSynced
    <3> QED
      BY <3>1, <3>2
  <2> QED
    BY <2>1, <1>1 DEF TierRight, Live, Paying
<1>8. TierSynced'
  BY <1>3, <1>7 DEF TierSynced
<1>9. \A d \in Call : pc'[d] # "writeTier"
  BY <1>1, <1>3
<1> QED
  BY <1>6, <1>8, <1>9 DEF TierInv

\* The job frees an organization none of whose subscriptions is paid, unless
\* an event that gives the tier back is waiting.
LEMMA JobDowngradeTier ==
  ASSUME InOrder, TypeOK, RowsInv, OneLive, TierInv, NEW s \in Sub, JobDowngrade(s)
  PROVE  TierInv'
<1> USE BillingAssumption
<1> DEFINE org == OrgOf[s]
<1>1. /\ UNCHANGED <<stripe, queue, logged, pc, event, seen>>
      /\ s \in overdue
      /\ tier' = [tier EXCEPT ![org] = Free]
  BY DEF JobDowngrade, DbError, InOrder, stripeVars, callVars
<1>2. /\ org \in Org /\ tier'[org] = Free
      /\ \A o \in Org \ {org} : tier'[o] = tier[o]
  BY <1>1 DEF TypeOK, TablesOK
<1>3. \A c \in Call : pc[c] = "idle" /\ ~AtTier(c) /\ ~AtTier(c)'
  BY <1>1 DEF RowsInv, OneAtATime, Idle, JobIdle, AtTier
<1>4. \A o \in Org : TierEvents(o)' = TierEvents(o)
  BY <1>1 DEF TierEvents, Undelivered
<1>5. \A f : TierWord(f) => TierWord(f)'
  BY <1>1 DEF Live, Paying, TierWord
<1>6. NewestTierWord'
  BY <1>4, <1>5 DEF TierInv, NewestTierWord, Newest
<1>7. ASSUME TierEvents(org) = {}
      PROVE  Paying(org) = {}
  <2>1. stripe[s].status = "past_due"
    <3>1. CASE Waiting(s) = {}
      BY <3>1, <1>1, OverdueIsUnpaid
    <3>2. CASE Waiting(s) # {}
      <4>1. PICK e \in Waiting(s) : LastWord(e)
        BY <3>2 DEF RowsInv, NewestIsLast
      <4>2. e.sub = s /\ e.type \notin TierTypes
        BY <1>7 DEF Waiting, TierEvents
      <4> QED
        BY <4>1, <4>2 DEF LastWord, TierTypes
    <3> QED
      BY <3>1, <3>2
  <2>2. ASSUME NEW t \in Paying(org) PROVE FALSE
    BY <2>1, <2>2 DEF Paying, Live, OneLive
  <2> QED
    BY <2>2
<1>8. ASSUME NEW o \in Org, TierEvents(o)' = {}
      PROVE  TierRight(o, tier[o])'
  <2>1. TierRight(o, tier'[o])
    <3>1. CASE o = org
      BY <1>8, <3>1, <1>2, <1>4, <1>7 DEF TierRight
    <3>2. CASE o # org
      BY <1>8, <3>2, <1>2, <1>3, <1>4 DEF TierInv, TierSynced
    <3> QED
      BY <3>1, <3>2
  <2> QED
    BY <2>1, <1>1 DEF TierRight, Live, Paying
<1>9. TierSynced'
  BY <1>3, <1>8 DEF TierSynced
<1> QED
  BY <1>1, <1>3, <1>6, <1>9 DEF TierInv

\* What Stripe does keeps TierInv.
LEMMA StripeTier ==
  ASSUME TypeOK, RowsInv, OneLive, OneLive', TierInv, NEW s \in Sub,
         \/ Cancel(s) \/ PaymentFails(s) \/ RetryFails(s) \/ PaymentSucceeds(s)
         \/ \E p \in Plan : Checkout(s, p) \/ ChangePlan(s, p)
  PROVE  TierInv'
<1>0. stripe \in [Sub -> [status : Status, plan : Tiers]]
  BY DEF TypeOK, StripeOK
\* The subscription pays afterwards, and the event carries its plan.
<1>1. ASSUME NEW new, NEW types, Emit(s, new, types), new.status = "active",
             NEW e, e = SentEvent(s, new, types, Len(types)),
             e.type \in {"checkout.session.completed", "customer.subscription.updated"}
      PROVE  TierWord(e)'
  <2>1. stripe'[s] = new /\ e.sub = s /\ e.plan = new.plan
    BY <1>0, <1>1 DEF Emit, SentEvent
  <2>2. s \in Live(OrgOf[s])'
    BY <2>1, <1>1 DEF Live
  <2>3. \A t \in Paying(OrgOf[s])' : t = s
    BY <2>1, <1>1 DEF OneLive, Paying, Live
  <2> QED
    BY <2>1, <2>2, <2>3, <1>1 DEF TierWord
\* Nobody in the organization pays afterwards.
<1>2. ASSUME NEW new, NEW types, Emit(s, new, types),
             stripe[s].status \in {"active", "past_due"},
             new.status \in {"past_due", "canceled"},
             NEW e, e = SentEvent(s, new, types, Len(types)),
             new.status = "canceled" => e.type = "customer.subscription.deleted"
      PROVE  TierWord(e)'
  <2>1. /\ stripe'[s] = new /\ e.sub = s
        /\ \A t \in Sub \ {s} : stripe'[t] = stripe[t]
    BY <1>0, <1>2 DEF Emit, SentEvent
  <2>2. Paying(OrgOf[s])' = {}
    BY <2>1, <1>2 DEF OneLive, Paying, Live
  <2>3. new.status = "past_due" => s \in Live(OrgOf[s])'
    BY <2>1 DEF Live
  <2> QED
    BY <2>1, <2>2, <2>3, <1>2 DEF TierWord
<1>3. ASSUME NEW p \in Plan, Checkout(s, p) PROVE TierInv'
  <2> DEFINE new == [status |-> "active", plan |-> p]
             types == <<"checkout.session.completed">>
  <2>1. Emit(s, new, types)
    BY <1>3 DEF Checkout
  <2>2. \A e : e = SentEvent(s, new, types, Len(types)) => TierWord(e)'
    BY <2>1, <1>1 DEF SentEvent
  <2> QED
    BY <2>1, <2>2, Emitted, EmitTier DEF TierTypes
<1>4. ASSUME NEW p \in Plan, ChangePlan(s, p) PROVE TierInv'
  <2> DEFINE new == [status |-> "active", plan |-> p]
             types == <<"customer.subscription.updated">>
  <2>1. Emit(s, new, types)
    BY <1>4 DEF ChangePlan
  <2>2. \A e : e = SentEvent(s, new, types, Len(types)) => TierWord(e)'
    BY <2>1, <1>1 DEF SentEvent
  <2> QED
    BY <2>1, <2>2, Emitted, EmitTier DEF TierTypes
<1>5. CASE Cancel(s)
  <2> DEFINE new == [stripe[s] EXCEPT !.status = "canceled"]
             types == <<"customer.subscription.deleted">>
  <2>1. Emit(s, new, types) /\ stripe[s].status \in {"active", "past_due"}
    BY <1>5 DEF Cancel
  <2>2. new.status = "canceled"
    BY <1>0
  <2>3. \A e : e = SentEvent(s, new, types, Len(types)) => TierWord(e)'
    BY <2>1, <2>2, <1>2 DEF SentEvent
  <2> QED
    BY <2>1, <2>3, Emitted, EmitTier DEF TierTypes
<1>6. CASE PaymentFails(s)
  <2> DEFINE new == [stripe[s] EXCEPT !.status = "past_due"]
             types == <<"invoice.payment_failed", "customer.subscription.updated">>
  <2>1. Emit(s, new, types) /\ stripe[s].status \in {"active", "past_due"}
    BY <1>6 DEF PaymentFails
  <2>2. new.status = "past_due"
    BY <1>0
  <2>3. \A e : e = SentEvent(s, new, types, Len(types)) => TierWord(e)'
    BY <2>1, <2>2, <1>2
  <2> QED
    BY <2>1, <2>3, Emitted, EmitTier DEF TierTypes
<1>7. CASE PaymentSucceeds(s)
  <2> DEFINE new == [stripe[s] EXCEPT !.status = "active"]
             types == <<"invoice.paid", "customer.subscription.updated">>
  <2>1. Emit(s, new, types)
    BY <1>7 DEF PaymentSucceeds
  <2>2. new.status = "active"
    BY <1>0
  <2>3. \A e : e = SentEvent(s, new, types, Len(types)) => TierWord(e)'
    BY <2>1, <2>2, <1>1 DEF SentEvent
  <2> QED
    BY <2>1, <2>3, Emitted, EmitTier DEF TierTypes
\* A further failed charge sends no event that writes a tier.
<1>8. CASE RetryFails(s)
  <2> DEFINE types == <<"invoice.payment_failed">>
  <2>1. /\ Emit(s, stripe[s], types)
        /\ UNCHANGED <<tier, pc, event, seen>>
    BY <1>8 DEF RetryFails, Emit, tables, callVars
  <2>2. stripe' = stripe
    BY <2>1, <1>0 DEF Emit
  <2>3. \A e \in Undelivered' : e \in Undelivered \/ e.type = "invoice.payment_failed"
    <3>1. Undelivered' = Undelivered \union
              {SentEvent(s, stripe[s], types, i) : i \in 1 .. Len(types)}
      <4>1. types \in Seq(EventTypes) /\ types # <<>> /\ NumbersOK
        BY Emitted DEF RowsInv
      <4> HIDE DEF types
      <4> QED
        BY <2>1, <4>1, EmitWaiting
    <3>2. \A i \in 1 .. Len(types) :
              SentEvent(s, stripe[s], types, i).type = "invoice.payment_failed"
      BY DEF SentEvent
    <3> QED
      BY <3>1, <3>2
  <2>4. Undelivered \subseteq Undelivered'
    BY <2>1, Emitted, EmitWaiting DEF RowsInv
  <2>5. \A o \in Org : TierEvents(o)' = TierEvents(o)
    BY <2>3, <2>4 DEF TierEvents, TierTypes
  <2> QED
    BY <2>1, <2>2, <2>5, SameTier DEF AtTier, TierInv
<1> QED
  BY <1>3, <1>4, <1>5, <1>6, <1>7, <1>8

\* The handlers' statements on the row, the end of a request, repeated events,
\* the job's other steps and the next day write no tier.
LEMMA OtherTier ==
  ASSUME InOrder, TypeOK, RowsInv, TierInv,
         \/ \E e \in queue : SkipDuplicate(e)
         \/ \E c \in Call : \/ CheckoutWrite(c) \/ UpdatedWrite(c) \/ DeletedWrite(c)
                            \/ PaidWrite(c) \/ PaymentFailedWrite(c) \/ Answer(c)
         \/ \E s \in Sub : JobCancel(s)
         \/ JobStart \/ NextDay \/ UNCHANGED vars
  PROVE  TierInv'
<1>0. pc \in [Call -> Steps] /\ event \in [Call -> Event \union {NoEvent}]
  BY DEF TypeOK, RequestsOK
<1>1. ASSUME NEW c \in Call, NEW type, NEW new, NEW next,
             WriteRow(c, type, new, next),
             \/ next = "writeTier" /\ type \in TierTypes
             \/ next = "answer" /\ type \notin TierTypes
      PROVE  TierInv'
  <2>1. /\ UNCHANGED <<stripe, tier, queue, logged, event, seen>>
        /\ pc[c] = "writeSub" /\ pc'[c] = next /\ event[c].type = type
        /\ \A d \in Call \ {c} : pc'[d] = pc[d]
    BY <1>0, <1>1 DEF WriteRow, stripeVars
  <2>2. \A o \in Org : TierEvents(o)' = TierEvents(o)
    BY <2>1 DEF TierEvents, Undelivered
  <2>3. \A d \in Call : AtTier(d)' <=> AtTier(d)
    BY <2>1, <1>1 DEF AtTier
  <2>4. \A d \in Call : pc'[d] = "writeTier" => event'[d].type \in TierTypes
    BY <2>1, <1>1 DEF TierInv
  <2>5. \A d \in Call : AtTier(d) => event'[d] = event[d] /\ seen'[d] = seen[d]
                                     /\ (pc'[d] # "lookup" => pc[d] # "lookup")
    BY <2>1
  <2> QED
    BY <2>1, <2>2, <2>3, <2>4, <2>5, SameTier
<1>2. ASSUME NEW c \in Call,
             \/ CheckoutWrite(c) \/ UpdatedWrite(c) \/ DeletedWrite(c)
             \/ PaidWrite(c) \/ PaymentFailedWrite(c)
      PROVE  TierInv'
  BY <1>1, <1>2 DEF CheckoutWrite, UpdatedWrite, DeletedWrite, PaidWrite,
     PaymentFailedWrite, TierTypes
<1>3. ASSUME NEW c \in Call, Answer(c) PROVE TierInv'
  <2>1. /\ UNCHANGED <<stripe, tier, seen, logged>>
        /\ queue' \subseteq queue /\ queue \ queue' \subseteq {event[c]}
        /\ pc[c] = "answer" /\ pc'[c] = "idle"
        /\ \A d \in Call \ {c} : pc'[d] = pc[d] /\ event'[d] = event[d]
    BY <1>3, <1>0 DEF Answer, tables
  <2>2. event[c].n \in logged
    BY <2>1 DEF RowsInv, OneAtATime, Idle
  <2>3. \A o \in Org : TierEvents(o)' = TierEvents(o)
    BY <2>1, <2>2 DEF TierEvents, Undelivered
  <2>4. \A d \in Call : AtTier(d)' <=> AtTier(d)
    BY <2>1 DEF AtTier
  <2>5. \A d \in Call : pc'[d] = "writeTier" => event'[d].type \in TierTypes
    BY <2>1 DEF TierInv
  <2>6. \A d \in Call : AtTier(d) => event'[d] = event[d] /\ seen'[d] = seen[d]
                                     /\ (pc'[d] # "lookup" => pc[d] # "lookup")
    BY <2>1 DEF AtTier
  <2> QED
    BY <2>1, <2>3, <2>4, <2>5, <2>6, SameTier
<1>4. ASSUME UNCHANGED <<stripe, tier, logged, pc, event, seen>>,
             queue' \subseteq queue, \A e \in queue \ queue' : e.n \in logged
      PROVE  TierInv'
  <2>1. \A o \in Org : TierEvents(o)' = TierEvents(o)
    BY <1>4 DEF TierEvents, Undelivered
  <2> QED
    BY <1>4, <2>1, SameTier DEF AtTier, TierInv
<1>5. ASSUME NEW e \in queue, SkipDuplicate(e) PROVE TierInv'
  BY <1>4, <1>5 DEF SkipDuplicate, IsNewEvent, tables, callVars
<1>6. ASSUME NEW s \in Sub, JobCancel(s) PROVE TierInv'
  BY <1>4, <1>6 DEF JobCancel, stripeVars, callVars
<1>7. CASE JobStart \/ NextDay \/ UNCHANGED vars
  BY <1>4, <1>7 DEF JobStart, NextDay, vars, stripeVars, tables, callVars
<1> QED
  BY <1>2, <1>3, <1>5, <1>6, <1>7

\* TierInv is inductive as long as no organization has two live subscriptions.
LEMMA TierStep ==
  ASSUME InOrder, TypeOK, RowsInv, OneLive, OneLive', TierInv, [Next]_vars
  PROVE  TierInv'
<1>1. ASSUME NEW c \in Call, RequestStep(c) PROVE TierInv'
  BY <1>1, LookupTier, WriteTierTier, OtherTier DEF RequestStep
<1>2. ~JobCrash /\ \A c \in Call : ~LookupThrows(c) /\ ~Crash(c)
  BY DEF InOrder, JobCrash, LookupThrows, Crash
<1> QED
  BY <1>1, <1>2, StripeTier, JobDowngradeTier, ReceiveTier, OtherTier DEF Next

\* Everybody starts on the free tier.
LEMMA TierInit == Init => TierInv
<1> SUFFICES ASSUME Init PROVE TierInv
  OBVIOUS
<1>1. /\ queue = {}
      /\ \A s \in Sub : stripe[s].status = "none"
      /\ \A o \in Org : tier[o] = Free
      /\ \A c \in Call : pc[c] = "idle"
  BY DEF Init
<1>2. \A o \in Org : TierEvents(o) = {} /\ Paying(o) = {}
  BY <1>1 DEF TierEvents, Undelivered, Paying, Live
<1> QED
  BY <1>1, <1>2 DEF TierInv, NewestTierWord, TierSynced, TierRight, AtTier

\* Once everything is delivered TierInv says what TierInSync says.
LEMMA TierInvSynced ==
  ASSUME TierInv PROVE TierInSync
<1>1. ASSUME Quiet, NEW o \in Org
      PROVE  TierRight(o, tier[o])
  BY <1>1 DEF TierInv, TierSynced, TierEvents, Undelivered, Quiet, AllIdle, Idle, AtTier
<1>2. ASSUME Quiet, NEW o \in Org, Paying(o) # {}
      PROVE  tier[o] \in {stripe[s].plan : s \in Live(o)}
  BY <1>1, <1>2 DEF TierRight, Paying
<1> QED
  BY <1>1, <1>2 DEF TierInSync, TierRight

\* "Keep organization subscription tier name in sync": in the same conditions,
\* and as long as no organization has two live subscriptions at once, an
\* organization that pays has the plan it pays for and one without a live
\* subscription is on the free tier, whenever every event has been handled.
THEOREM TiersInSync == ASSUME InOrder PROVE Spec /\ []OneLive => []TierInSync
<1>1. TypeOK /\ RowsInv /\ [Next]_vars => RowsInv'
  BY RowsStep
<1>2. TypeOK /\ RowsInv /\ OneLive /\ OneLive' /\ TierInv /\ [Next]_vars => TierInv'
  BY TierStep
<1>3. TierInv => TierInSync
  BY TierInvSynced
<1> QED
  BY <1>1, <1>2, <1>3, RowsInit, TierInit, TypeCorrect, PTL DEF Spec

\* No two subscriptions are ever sold to the same organization.
OneEach == \A s, t \in Sub : OrgOf[s] = OrgOf[t] => s = t

\* Without a second subscription the tiers follow Stripe unconditionally.
COROLLARY SingleTierInSync == ASSUME InOrder, OneEach PROVE Spec => []TierInSync
<1>1. OneLive
  BY DEF OneEach, OneLive
<1> QED
  BY <1>1, TiersInSync, PTL

=============================================================================
