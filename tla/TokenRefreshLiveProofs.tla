----------------------- MODULE TokenRefreshLiveProofs -----------------------
(***************************************************************************)
(* Proofs about TokenRefresh: callers deactivate no connection whose token *)
(* upstream would still accept.  TokenRefreshProofs shows that a           *)
(* connection stays good until something goes wrong for it.  Here it is    *)
(* shown where it may end up then: a lost answer or a restart can leave    *)
(* the newest token known to nobody, and that never changes again.         *)
(***************************************************************************)
EXTENDS TokenRefreshProofs

\* Caller j does not know the newest token of connection c.
InTheDark(c, j) ==
    /\ job[j].tok # newest[c]
    /\ job[j].pc \in {"answered", "leaving"} /\ job[j].got.is = "ok"
          => job[j].got.tok # newest[c]

\* Nobody knows the newest token of connection c: not the row, nor a refresh,
\* nor a caller.
Stuck(c) ==
    /\ row[c].tok # newest[c]
    /\ rotated[c] = {}
    /\ flight[c].pc # "none" => flight[c].tok # newest[c] /\ flight[c].got.is # "ok"
    /\ \A j \in Job : At(j, c) => InTheDark(c, j)

\* The mishaps after which a caller may present, or a row hold, an old token
\* while somebody else knows the newest, or a caller be told that a good token
\* is dead.
Muddling == {"db", "timeout", "odd401", "blip"}

Calm(c) == mishap[c] \cap Muddling = {}

\* As long as nothing muddles a connection it is good, or lost for good.
GoodOrStuck == \A c \in Conn \ Direct : Calm(c) => Good(c) \/ Stuck(c)

LiveInv == Control /\ GoodOrStuck

(***************************************************************************)
(* What nobody knows, nobody learns.                                       *)
(***************************************************************************)

\* A step about another connection.
LEMMA StuckElsewhere ==
  ASSUME Control, NEW e \in Conn, Local(e), NEW c \in Conn, c # e, Stuck(c)
  PROVE  Stuck(c)'
<1>1. SameData(c)
  BY DEF Local
<1>2. \A i \in Job : At(i, c)' => At(i, c) /\ job'[i] = job[i]
  BY DEF Local, Only, At
<1> QED
  BY <1>1, <1>2 DEF Stuck, SameData, InTheDark

\* Only caller j moves.
LEMMA StuckCaller ==
  ASSUME NEW c \in Conn, NEW j \in Job, Stuck(c), newest'[c] = newest[c],
         row'[c].tok # newest[c], rotated'[c] = rotated[c],
         flight'[c].pc # "none" => flight'[c].tok # newest[c] /\ flight'[c].got.is # "ok",
         \A i \in Job : i # j => job'[i] = job[i],
         At(j, c)' => InTheDark(c, j)'
  PROVE  Stuck(c)'
<1>1. \A i \in Job : At(i, c)' => InTheDark(c, i)'
  BY DEF Stuck, At, InTheDark
<1> QED
  BY <1>1 DEF Stuck

\* A caller that stays with its token goes on, or leaves, and the row stays.
LEMMA StuckGoesOn ==
  ASSUME Control, NEW c \in Conn, NEW j \in Job, job[j].conn = c, Stuck(c),
         \/ UsageTurn(j) \/ JoinFlight(j) \/ UsageAnswered(j) \/ GoOn(j)
  PROVE  Stuck(c)'
<1>1. /\ UNCHANGED <<newest, row, rotated, flight>>
      /\ \A i \in Job : i # j => job'[i] = job[i]
      /\ job[j].pc # "idle"
  BY DEF UsageTurn, JoinFlight, UsageAnswered, GoOn, Done, upstream, memory, Control, TypeOK
<1>2. At(j, c)' => InTheDark(c, j)'
  <2>1. InTheDark(c, j)
    BY <1>1 DEF Stuck, At
  <2>2. \/ job'[j].pc = "idle"
        \/ /\ job'[j].tok = job[j].tok /\ job'[j].got = job[j].got
           /\ job'[j].pc = "leaving" => job[j].pc = "answered"
           /\ job'[j].pc # "answered"
    BY DEF UsageTurn, JoinFlight, UsageAnswered, GoOn, Done, Idle, Control, TypeOK, JobState
  <2> QED
    BY <1>1, <2>1, <2>2 DEF At, InTheDark
<1> QED
  BY <1>1, <1>2, StuckCaller DEF Stuck

\* A caller that fails tries again, or gives up, or stops waiting.
LEMMA StuckRetries ==
  ASSUME Control, NEW c \in Conn, NEW j \in Job, job[j].conn = c, Stuck(c),
         ReactiveRetries(j) \/ TimeOut(j)
  PROVE  Stuck(c)'
<1>1. /\ UNCHANGED <<newest, row, rotated>>
      /\ \A i \in Job : i # j => job'[i] = job[i]
      /\ job[j].pc # "idle"
      /\ Retry(j)
  BY DEF ReactiveRetries, TimeOut, Retry, Done, upstream, Control, TypeOK
<1>2. At(j, c)' => InTheDark(c, j)'
  <2>1. InTheDark(c, j)
    BY <1>1 DEF Stuck, At
  <2>2. \/ job'[j].pc = "idle"
        \/ job'[j].tok = job[j].tok /\ job'[j].pc = "ready"
    BY <1>1 DEF Retry, Done, Idle, Control, TypeOK, JobState
  <2> QED
    BY <1>1, <2>1, <2>2 DEF At, InTheDark
<1>3. /\ flight'[c].pc = flight[c].pc /\ flight'[c].tok = flight[c].tok
      /\ flight'[c].got = flight[c].got
  <2>1. flight'[c] \in {flight[c], [flight[c] EXCEPT !.by = NoJob]}
    BY <1>1 DEF Retry
  <2>2. flight[c] \in Flight
    BY DEF Control, TypeOK
  <2> QED
    BY <2>1, <2>2 DEF Flight
<1> QED
  BY <1>1, <1>2, <1>3, StuckCaller DEF Stuck

\* A write puts the row's new value or fails.
LEMMA WriteEither ==
  ASSUME Control, NEW c \in Conn, NEW r, Write(c, r)
  PROVE  row'[c] = r \/ row' = row
BY DEF Write, Control, TypeOK

\* A caller that is through leaves no newer token behind than it was told.
LEMMA StuckLeaves ==
  ASSUME Control, NEW c \in Conn, NEW j \in Job, job[j].conn = c, Stuck(c),
         \/ TakeTokens(j) \/ ReactiveGivesUp(j) \/ SweepGivesUp(j) \/ UsageLeaves(j)
  PROVE  Stuck(c)'
<1>1. /\ UNCHANGED <<newest, rotated, flight>>
      /\ \A i \in Job : i # j => job'[i] = job[i]
      /\ job'[j].pc = "idle" /\ job[j].pc \in {"answered", "leaving"}
  BY DEF TakeTokens, ReactiveGivesUp, SweepGivesUp, UsageLeaves, Done, Idle, upstream,
         memory, Control, TypeOK
<1>2. newest[c] # 0 /\ row[c] \in Row /\ InTheDark(c, j)
  BY <1>1 DEF Stuck, At, Control, TypeOK, Token
<1>3. row'[c].tok # newest[c]
  <2>1. CASE TakeTokens(j) \/ UsageLeaves(j)
    <3>1. \/ row' = row
          \/ job[j].got.is = "ok" /\ Write(c, Stored(c, job[j].got.tok))
      BY <2>1 DEF TakeTokens, UsageLeaves
    <3>2. job[j].got.is = "ok" => job[j].got.tok # newest[c]
      BY <1>1, <1>2 DEF InTheDark
    <3>3. row' = row \/ (job[j].got.is = "ok" /\ row'[c] = Stored(c, job[j].got.tok))
      BY <3>1, WriteEither
    <3> QED
      BY <3>2, <3>3, StoredIs DEF Stuck
  <2>2. CASE ReactiveGivesUp(j)
    <3>1. row' = row \/ row'[c] = [row[c] EXCEPT !.active = FALSE]
      BY <2>2, WriteEither DEF ReactiveGivesUp, Control, TypeOK
    <3> QED
      BY <1>2, <3>1 DEF Stuck, Row
  <2>3. CASE SweepGivesUp(j)
    <3>1. row' = row \/ row'[c] = [row[c] EXCEPT !.active = FALSE, !.tok = 0]
      BY <2>3, WriteEither DEF SweepGivesUp
    <3> QED
      BY <1>2, <3>1 DEF Stuck, Row
  <2> QED
    BY <2>1, <2>2, <2>3
<1>4. ~At(j, c)'
  BY <1>1 DEF At
<1> QED
  BY <1>1, <1>3, <1>4, StuckCaller DEF Stuck

\* A caller loads the row's token.
LEMMA StuckLoad ==
  ASSUME Control, NEW c \in Conn, NEW j \in Job, NEW k \in AllKinds, Stuck(c), Load(j, c, k)
  PROVE  Stuck(c)'
<1>1. /\ UNCHANGED <<newest, row, rotated, flight>>
      /\ \A i \in Job : i # j => job'[i] = job[i]
  BY DEF Load, upstream, Control, TypeOK
<1>2. InTheDark(c, j)'
  <2>1. PICK pc \in {"outer", "ready"} : job'[j] =
           [Idle EXCEPT !.pc = pc, !.conn = c, !.kind = k, !.tok = row[c].tok, !.first = row[c].tok]
    BY DEF Load, Control, TypeOK
  <2>2. job'[j].pc = pc /\ job'[j].tok = row[c].tok
    BY <2>1 DEF Idle
  <2> QED
    BY <1>1, <2>2 DEF Stuck, InTheDark
<1> QED
  BY <1>1, <1>2, StuckCaller DEF Stuck

\* The end of a refresh that does not bring the newest token.
LEMMA StuckFinish ==
  ASSUME Control, NEW c \in Conn, Stuck(c), NEW f \in Flight, NEW got \in Result,
         NEW callers \in SUBSET Job, Finish(c, f, got, callers),
         newest'[c] = newest[c], rotated'[c] = rotated[c],
         got.is = "ok" => got.tok # newest[c],
         \A i \in callers : At(i, c)
  PROVE  Stuck(c)'
<1>1. flight'[c].pc = "none"
  BY FinishRow DEF NoFlight
<1>2. row'[c].tok # newest[c]
  <2>1. CASE Persists(c, f, got)
    <3>1. Write(c, Stored(c, got.tok))
      BY <2>1 DEF Finish, Persists
    <3>2. row'[c] = Stored(c, got.tok) \/ row' = row
      BY <3>1, WriteEither
    <3> QED
      BY <2>1, <3>2, StoredIs DEF Persists, Stuck
  <2>2. CASE ~Persists(c, f, got)
    BY <2>2, FinishRow DEF Stuck
  <2> QED
    BY <2>1, <2>2
<1>3. ASSUME NEW i \in Job, At(i, c)'
      PROVE  InTheDark(c, i)'
  <2>1. TypeOK
    BY DEF Control
  <2>2. /\ job'[i].conn = job[i].conn
        /\ job'[i].pc = IF i \in callers THEN "answered" ELSE job[i].pc
        /\ job'[i].got = IF i \in callers THEN Seen(c, job[i].kind, Told(c, f, got))
                         ELSE job[i].got
        /\ Persists(c, f, got) /\ i = f.by => job'[i].tok = got.tok
        /\ ~(Persists(c, f, got) /\ i = f.by) => job'[i].tok = job[i].tok
    BY <2>1, FinishJobs
  <2>3. At(i, c) /\ InTheDark(c, i)
    BY <1>3, <2>2 DEF Stuck, At
  <2>4. job'[i].tok # newest[c]
    BY <2>2, <2>3 DEF InTheDark, Persists
  <2>5. i \in callers /\ job'[i].got.is = "ok" => job'[i].got = got
    BY <2>2 DEF Seen, Told, Null
  <2> QED
    BY <2>2, <2>3, <2>4, <2>5 DEF InTheDark
<1> QED
  BY <1>1, <1>2, <1>3 DEF Stuck

\* A caller that finds no refresh under way: no rotation is remembered, and
\* the row's token is as old as its own.
LEMMA StuckStarts ==
  ASSUME Control, NEW c \in Conn, NEW j \in Job, job[j].conn = c, Stuck(c),
         RotationHit(j) \/ UseRow(j) \/ Enqueue(j)
  PROVE  Stuck(c)'
<1>1. /\ UNCHANGED <<newest, rotated>>
      /\ job[j].pc = "ready" /\ At(j, c) /\ InTheDark(c, j)
      /\ job[j].tok \in Nat /\ row[c].tok \in Nat
  BY DEF RotationHit, UseRow, Enqueue, CanStart, upstream, At, Stuck, Control, TypeOK,
         JobState, Row
<1>2. CASE RotationHit(j)
  BY <1>2 DEF RotationHit, Stuck
<1>3. CASE UseRow(j)
  <2>1. PICK f \in Flight : f = FlightOf(j, job[j].tok)
    BY <1>1, FlightOfType DEF Control
  <2>2. PICK got \in Result : got = Ok(row[c].tok)
    BY <1>1, ResultTypes
  <2>3. Finish(c, f, got, {j})
    BY <1>3, <2>1, <2>2 DEF UseRow
  <2>4. got.tok # newest[c] /\ {j} \in SUBSET Job /\ \A i \in {j} : At(i, c)
    BY <1>1, <2>2 DEF Ok, Stuck
  <2> QED
    BY <1>1, <2>3, <2>4, StuckFinish
<1>4. CASE Enqueue(j)
  <2>1. PICK t \in {job[j].tok, row[c].tok} :
           /\ flight' = [flight EXCEPT ![c] = FlightOf(j, t)]
           /\ job' = [job EXCEPT ![j].pc = "waiting", ![j].tok = t]
    BY <1>4 DEF Enqueue
  <2>2. t # newest[c] /\ t \in Nat
    BY <1>1 DEF InTheDark, Stuck
  <2>3. FlightOf(j, t).tok = t /\ FlightOf(j, t).got = Null
    BY DEF FlightOf, NoFlight
  <2>4. flight'[c].tok # newest[c] /\ flight'[c].got.is # "ok"
    BY <2>1, <2>2, <2>3 DEF Control, TypeOK, Null
  <2>5. /\ \A i \in Job : i # j => job'[i] = job[i]
        /\ job'[j].pc = "waiting" /\ job'[j].tok = t
    BY <2>1, <2>2 DEF Control, TypeOK, JobState
  <2>6. row' = row
    BY <1>4 DEF Enqueue
  <2> QED
    BY <1>1, <2>2, <2>4, <2>5, <2>6, StuckCaller DEF InTheDark, Stuck
<1> QED
  BY <1>2, <1>3, <1>4

\* Upstream accepts no token but the newest, which nobody presents.
LEMMA StuckFlight ==
  ASSUME Control, NEW c \in Conn, Stuck(c), Turn(c) \/ UpstreamStep(c)
  PROVE  Stuck(c)'
<1>1. flight[c].tok # newest[c] /\ flight[c].got.is # "ok"
  BY DEF Turn, UpstreamStep, Stuck
<1>2. /\ newest'[c] = newest[c] /\ UNCHANGED <<row, rotated, job>>
      /\ flight'[c].tok = flight[c].tok /\ flight'[c].got.is # "ok"
  <2>1. CASE Turn(c)
    BY <1>1, <2>1 DEF Turn, upstream, Control, TypeOK, Flight
  <2>2. CASE UpstreamStep(c)
    <3>1. PICK got \in Answers(c) :
            /\ Outcome(c, flight[c].tok, got)
            /\ flight' = [flight EXCEPT ![c].pc = "settling", ![c].got = got]
      BY <2>2 DEF UpstreamStep
    <3>2. newest'[c] = newest[c] /\ got.is # "ok"
      BY <1>1, <3>1, OutcomeIs
    <3> QED
      BY <2>2, <3>1, <3>2 DEF UpstreamStep, Control, TypeOK, Flight
  <2> QED
    BY <2>1, <2>2
<1> QED
  BY <1>1, <1>2 DEF Stuck, At, InTheDark

LEMMA StuckSettle ==
  ASSUME Control, NEW c \in Conn, Stuck(c), Settle(c)
  PROVE  Stuck(c)'
<1>1. PICK f \in Flight : f = flight[c]
  BY DEF Control, TypeOK
<1>2. PICK got \in Result : got = flight[c].got
  BY <1>1 DEF Flight
<1>3. PICK callers \in SUBSET Job : callers = Waiters(c)
  BY DEF Waiters
<1>4. Finish(c, f, got, callers)
  BY <1>1, <1>2, <1>3 DEF Settle
<1>5. got.is # "ok"
  BY <1>2 DEF Settle, Stuck
<1>6. newest' = newest /\ rotated'[c] = rotated[c]
  BY <1>2, <1>5 DEF Settle, upstream, Control, TypeOK
<1>7. \A i \in callers : At(i, c)
  BY <1>3 DEF Waiters, At
<1> QED
  BY <1>4, <1>5, <1>6, <1>7, StuckFinish

LEMMA StuckTime ==
  ASSUME Control, NEW c \in Conn, Stuck(c),
         Age(c) \/ \E t \in rotated[c] : RotationExpires(c, t)
  PROVE  Stuck(c)'
<1>1. Age(c)
  BY DEF Stuck
<1>2. UNCHANGED <<newest, rotated, flight, job>> /\ row'[c].tok = row[c].tok
  BY <1>1 DEF Age, upstream, memory, Control, TypeOK, Row
<1> QED
  BY <1>2 DEF Stuck, At, InTheDark

LEMMA StuckCrash ==
  ASSUME Control, NEW c \in Conn, Stuck(c), Crash
  PROVE  Stuck(c)'
BY DEF Stuck, Crash, At, Idle, NoFlight, upstream

\* Whatever happens, mishaps included: a token nobody knows stays unknown.
LEMMA StuckStays ==
  ASSUME Control, [Next]_vars, NEW c \in Conn \ Direct, Stuck(c)
  PROVE  Stuck(c)'
<1>1. ASSUME NEW j \in Job, CallerStep(j) \/ TimeOut(j)
      PROVE  Stuck(c)'
  <2>1. job[j].conn \in Conn
    BY <1>1 DEF CallerStep, UsageTurn, JoinFlight, RotationHit, UseRow, Enqueue, CanStart,
           TakeTokens, ReactiveGivesUp, SweepGivesUp, ReactiveRetries, GoOn, UsageAnswered,
           UsageLeaves, DirectCall, DirectAnswer, TimeOut, Control, Attached
  <2>2. Local(job[j].conn)
    BY <1>1, UsageTurnSound, JoinFlightSound, RotationHitSound, UseRowSound,
       EnqueueSound, TakeTokensSound, ReactiveGivesUpSound, SweepGivesUpSound,
       ReactiveRetriesSound, GoOnSound, UsageAnsweredSound, UsageLeavesSound,
       DirectCallSound, DirectAnswerSound, TimeOutSound DEF CallerStep
  <2>3. CASE job[j].conn = c
    <3>1. ~DirectCall(j) /\ ~DirectAnswer(j)
      BY <2>3 DEF DirectCall, DirectAnswer, Control, Bypassing, Bypasses
    <3> QED
      BY <1>1, <2>3, <3>1, StuckGoesOn, StuckRetries, StuckLeaves, StuckStarts DEF CallerStep
  <2>4. CASE job[j].conn # c
    BY <2>1, <2>2, <2>4, StuckElsewhere
  <2> QED
    BY <2>3, <2>4
<1>2. ASSUME NEW j \in Job, NEW d \in Conn, NEW k \in KindsOf[d], Load(j, d, k)
      PROVE  Stuck(c)'
  <2>1. k \in AllKinds
    BY TokenRefreshAssumption
  <2>2. Local(d)
    BY <1>2, <2>1, LoadSound
  <2> QED
    BY <1>2, <2>1, <2>2, StuckElsewhere, StuckLoad
<1>3. ASSUME NEW d \in Conn,
             \/ Turn(d) \/ UpstreamStep(d) \/ Settle(d) \/ Age(d)
             \/ \E t \in rotated[d] : RotationExpires(d, t)
             \/ \E t \in stray[d] : StrayAnswer(d, t)
      PROVE  Stuck(c)'
  <2>1. Local(d)
    BY <1>3, TurnSound, UpstreamSound, SettleSound, AgeSound, RotationExpiresSound,
       StrayAnswerSound
  <2>2. CASE d = c
    <3>1. stray[c] = {}
      BY DEF Control, Bypassing
    <3> QED
      BY <1>3, <2>2, <3>1, StuckFlight, StuckSettle, StuckTime
  <2>3. CASE d # c
    BY <2>1, <2>3, StuckElsewhere
  <2> QED
    BY <2>2, <2>3
<1>4. CASE Crash
  BY <1>4, StuckCrash
<1>5. CASE UNCHANGED vars
  BY <1>5 DEF vars, upstream, memory, Stuck, At, InTheDark
<1> QED
  BY <1>1, <1>2, <1>3, <1>4, <1>5 DEF Next, FlightStep

(***************************************************************************)
(* From good to stuck.                                                     *)
(***************************************************************************)

\* The new token is issued and its answer gets lost.
LoseAnswer(c) ==
    /\ flight[c].pc = "posting"
    /\ Accept(c, flight[c].tok, Null)
    /\ Mishap(c, "lost")
    /\ flight' = [flight EXCEPT ![c].pc = "settling", ![c].got = Null]
    /\ UNCHANGED <<row, rotated, lane, stray, job>>

\* What may go wrong in a step.
LEMMA WhatGoesWrong ==
  ASSUME Control, [Next]_vars
  PROVE  \/ mishap' = mishap
         \/ Crash
         \/ \E c \in Conn : LoseAnswer(c)
         \/ \E c \in Conn, k \in Muddling : Mishap(c, k)
         \/ \E c \in Direct : Mishap(c, "lost")
<1>1. \A c \in Conn : \A r : Write(c, r) => mishap' = mishap \/ Mishap(c, "db")
  BY DEF Write
<1>2. ASSUME NEW c \in Conn, NEW f, NEW got, NEW callers, Finish(c, f, got, callers)
      PROVE  mishap' = mishap \/ Mishap(c, "db")
  BY <1>1, <1>2 DEF Finish
<1>3. ASSUME NEW c, NEW t, NEW got, Outcome(c, t, got)
       PROVE  \/ mishap' = mishap
              \/ Accept(c, t, got) /\ got = Null /\ Mishap(c, "lost")
              \/ Mishap(c, "blip")
  BY <1>3 DEF Outcome, Accept, Refuse, FailCall
<1>4. ASSUME NEW j \in Job, CallerStep(j) \/ TimeOut(j)
      PROVE  \/ mishap' = mishap
             \/ \E c \in Conn, k \in Muddling : Mishap(c, k)
             \/ \E c \in Direct : Mishap(c, "lost")
  <2>1. job[j].conn \in Conn
    BY <1>4 DEF CallerStep, UsageTurn, JoinFlight, RotationHit, UseRow, Enqueue, CanStart,
           TakeTokens, ReactiveGivesUp, SweepGivesUp, ReactiveRetries, GoOn, UsageAnswered,
           UsageLeaves, DirectCall, DirectAnswer, TimeOut, Control, Attached
  <2>2. \/ mishap' = mishap
        \/ Mishap(job[j].conn, "db")
        \/ Mishap(job[j].conn, "timeout")
        \/ Mishap(job[j].conn, "blip")
        \/ job[j].conn \in Direct /\ Mishap(job[j].conn, "lost")
    <3>1. CASE RotationHit(j) \/ UseRow(j)
      BY <1>2, <2>1, <3>1 DEF RotationHit, UseRow
    <3>2. CASE TakeTokens(j) \/ ReactiveGivesUp(j) \/ SweepGivesUp(j) \/ UsageLeaves(j)
      BY <1>1, <2>1, <3>2 DEF TakeTokens, ReactiveGivesUp, SweepGivesUp, UsageLeaves
    <3>3. CASE UsageTurn(j) \/ JoinFlight(j) \/ ReactiveRetries(j) \/ GoOn(j) \/ UsageAnswered(j)
             \/ DirectCall(j)
      BY <3>3 DEF UsageTurn, JoinFlight, ReactiveRetries, GoOn, UsageAnswered, DirectCall
    <3>4. CASE Enqueue(j)
      BY <3>4 DEF Enqueue
    <3>5. CASE TimeOut(j)
      BY <3>5 DEF TimeOut
    <3>6. CASE DirectAnswer(j)
      <4>1. \E got : Outcome(job[j].conn, job[j].tok, got)
        BY <3>6 DEF DirectAnswer
      <4>2. job[j].conn \in Direct
        BY <3>6 DEF DirectAnswer, Control, Bypassing, Bypasses
      <4> QED
        BY <1>3, <4>1, <4>2
    <3> QED
      BY <1>4, <3>1, <3>2, <3>3, <3>4, <3>5, <3>6 DEF CallerStep
  <2> QED
    BY <2>1, <2>2 DEF Muddling
<1>5. ASSUME NEW j \in Job, NEW c \in Conn, NEW k, Load(j, c, k)
      PROVE  mishap' = mishap \/ Mishap(c, "odd401")
  BY <1>5 DEF Load
<1>6. ASSUME NEW c \in Conn, UpstreamStep(c)
      PROVE  mishap' = mishap \/ LoseAnswer(c) \/ Mishap(c, "blip")
  <2>1. PICK got \in Answers(c) :
          /\ Outcome(c, flight[c].tok, got)
          /\ flight' = [flight EXCEPT ![c].pc = "settling", ![c].got = got]
    BY <1>6 DEF UpstreamStep
  <2>2. CASE Accept(c, flight[c].tok, got) /\ got = Null /\ Mishap(c, "lost")
    BY <1>6, <2>1, <2>2 DEF UpstreamStep, LoseAnswer
  <2> QED
    BY <1>3, <2>1, <2>2
<1>7. ASSUME NEW c \in Conn, Settle(c)
      PROVE  mishap' = mishap \/ Mishap(c, "db")
  BY <1>2, <1>7 DEF Settle
<1>8. ASSUME NEW c \in Conn, Turn(c) \/ Age(c) \/ \E t \in rotated[c] : RotationExpires(c, t)
      PROVE  mishap' = mishap
  BY <1>8 DEF Turn, Age, RotationExpires
<1>9. ASSUME NEW c \in Conn, NEW t \in stray[c], StrayAnswer(c, t)
       PROVE  mishap' = mishap \/ Mishap(c, "blip") \/ (c \in Direct /\ Mishap(c, "lost"))
  <2>1. c \in Direct
    BY DEF Control, Bypassing
  <2>2. \E got : Outcome(c, t, got)
    BY <1>9 DEF StrayAnswer
  <2> QED
    BY <1>3, <2>1, <2>2
<1>10. UNCHANGED vars => mishap' = mishap
  BY DEF vars
<1>11. {"db", "odd401", "blip"} \subseteq Muddling
  BY DEF Muddling
<1> QED
  BY <1>4, <1>5, <1>6, <1>7, <1>8, <1>10, <1>11, <1>9 DEF Next, FlightStep

\* Only LoseAnswer and Crash harm a connection that stays calm.
LEMMA WhatHarms ==
  ASSUME Control, [Next]_vars, NEW c \in Conn \ Direct, Calm(c)', ~Spared(c)
  PROVE  Crash \/ LoseAnswer(c)
<1>1. \A d \in Conn : \A k : Mishap(d, k) => mishap'[d] = mishap[d] \union {k}
                                           /\ \A e \in Conn : e # d => mishap'[e] = mishap[e]
  BY DEF Mishap, Control, TypeOK
<1>2. \A d \in Conn, k \in Muddling : ~Mishap(d, k)
  BY <1>1 DEF Calm, Spared
<1>3. \A d \in Conn : Mishap(d, "lost") => d = c
  BY <1>1 DEF Spared
<1> QED
  BY <1>2, <1>3, WhatGoesWrong, TokenRefreshAssumption DEF Spared, LoseAnswer

\* The newest token is on its way to nobody.
LEMMA LostIsStuck ==
  ASSUME Control, NEW c \in Conn, Good(c), LoseAnswer(c)
  PROVE  Stuck(c)'
<1>1. /\ flight[c].pc = "posting" /\ flight'[c].tok = flight[c].tok
      /\ flight'[c].got = Null
      /\ newest'[c] = newest[c] + 1
      /\ UNCHANGED <<row, rotated, job>>
  BY DEF LoseAnswer, Accept, Control, TypeOK, Flight
<1>2. /\ rotated[c] = {} /\ row[c].tok = newest[c] /\ flight[c].tok = newest[c]
      /\ newest[c] \in Nat
  BY <1>1 DEF Good, FlightGood, Rotating, Control, TypeOK, Token
<1>3. ASSUME NEW j \in Job, At(j, c)'
      PROVE  InTheDark(c, j)'
  <2>1. At(j, c) /\ job[j].tok \in Nat /\ job[j].tok <= newest[c]
    BY <1>1, <1>3 DEF At, Good, JobGood, Control, TypeOK, JobState
  <2>2. job[j].pc # "answered"
    BY <1>1, <2>1 DEF Good, FlightGood
  <2>3. job[j].pc # "leaving"
    BY <1>1, <2>1, LaneOfOne DEF At, InTurn
  <2> QED
    BY <1>1, <1>2, <2>1, <2>2, <2>3 DEF InTheDark
<1> QED
  BY <1>1, <1>2, <1>3 DEF Stuck, Null

\* What is left after a restart is the row, with the newest token or without.
LEMMA CrashIsGoodOrStuck ==
  ASSUME Control, NEW c \in Conn, Good(c), Crash
  PROVE  Good(c)' \/ Stuck(c)'
<1>1. /\ newest' = newest /\ alive' = alive /\ row' = row
      /\ rotated'[c] = {} /\ flight'[c] = NoFlight
      /\ \A j \in Job : ~At(j, c)'
  BY DEF Crash, upstream, At, Idle
<1>2. CASE row[c].tok = newest[c]
  BY <1>1, <1>2 DEF Good, Behind, NoFlight
<1>3. CASE row[c].tok # newest[c]
  BY <1>1, <1>3 DEF Stuck, NoFlight
<1> QED
  BY <1>2, <1>3

LEMMA GoodOrStuckStays ==
  ASSUME LiveInv, [Next]_vars
  PROVE  GoodOrStuck'
<1>1. Control /\ Keeps
  BY NextKeeps DEF LiveInv
<1>2. ASSUME NEW c \in Conn \ Direct, Calm(c)'
      PROVE  Good(c)' \/ Stuck(c)'
  <2>1. Calm(c)
    BY <1>1, <1>2 DEF Keeps, Calm
  <2>2. CASE Stuck(c)
    BY <1>1, <2>2, StuckStays
  <2>3. CASE Good(c) /\ Spared(c)
    BY <1>1, <2>3 DEF Keeps
  <2>4. CASE Good(c) /\ ~Spared(c)
    BY <1>1, <1>2, <2>4, WhatHarms, LostIsStuck, CrashIsGoodOrStuck
  <2> QED
    BY <2>1, <2>2, <2>3, <2>4 DEF LiveInv, GoodOrStuck
<1> QED
  BY <1>2 DEF GoodOrStuck

THEOREM LiveInvHolds == Spec => []LiveInv
<1>1. Init => LiveInv
  BY InitControl, InitSound DEF Init, LiveInv, GoodOrStuck, Sound
<1>2. LiveInv /\ [Next]_vars => LiveInv'
  BY NextControl, GoodOrStuckStays DEF LiveInv
<1> QED
  BY <1>1, <1>2, PTL DEF Spec

(***************************************************************************)
(* Who deactivates.                                                        *)
(***************************************************************************)

\* A caller deactivates a connection only when it was told that the token is
\* dead.
LEMMA DeactivatedIsTold ==
  ASSUME Control, [Next]_vars, NEW c \in Conn, row[c].active, ~row'[c].active
  PROVE  \E j \in Job : At(j, c) /\ job[j].pc = "answered" /\ job[j].got = Dead
<1>0. \A d \in Conn : row[d] \in Row
  BY DEF Control, TypeOK
<1>1. \A d \in Conn : \A t : Stored(d, t).active = row[d].active
  BY <1>0 DEF Stored, Row
<1>2. \A d \in Conn : \A r : Write(d, r) => row' = row \/ row' = [row EXCEPT ![d] = r]
  BY DEF Write
<1>3. ASSUME NEW d \in Conn, NEW t, Write(d, Stored(d, t))
      PROVE  row'[c].active = row[c].active
  <2>1. row' = row \/ row' = [row EXCEPT ![d] = Stored(d, t)]
    BY <1>2, <1>3
  <2>2. row'[c] = row[c] \/ (c = d /\ row'[c] = Stored(d, t))
    BY <2>1 DEF Control, TypeOK
  <2> QED
    BY <1>1, <2>2
<1>4. \A d \in Conn : \A f, got, callers :
         Finish(d, f, got, callers) => row'[c].active = row[c].active
  BY <1>3 DEF Finish
<1>5. ASSUME NEW j \in Job, CallerStep(j) \/ TimeOut(j)
      PROVE  ReactiveGivesUp(j) \/ SweepGivesUp(j)
  <2>1. job[j].conn \in Conn
    BY <1>5 DEF CallerStep, UsageTurn, JoinFlight, RotationHit, UseRow, Enqueue, CanStart,
           TakeTokens, ReactiveGivesUp, SweepGivesUp, ReactiveRetries, GoOn, UsageAnswered,
           UsageLeaves, DirectCall, DirectAnswer, TimeOut, Control, Attached
  <2>2. ~RotationHit(j) /\ ~UseRow(j)
    BY <1>4, <2>1 DEF RotationHit, UseRow
  <2>3. ~TakeTokens(j) /\ ~UsageLeaves(j)
    BY <1>3, <2>1 DEF TakeTokens, UsageLeaves
  <2>4. /\ ~UsageTurn(j) /\ ~JoinFlight(j) /\ ~Enqueue(j) /\ ~ReactiveRetries(j)
        /\ ~TimeOut(j) /\ ~GoOn(j) /\ ~UsageAnswered(j) /\ ~DirectCall(j) /\ ~DirectAnswer(j)
    BY DEF UsageTurn, JoinFlight, Enqueue, ReactiveRetries, TimeOut, GoOn, UsageAnswered,
           DirectCall, DirectAnswer
  <2> QED
    BY <1>5, <2>2, <2>3, <2>4 DEF CallerStep
<1>6. ASSUME NEW j \in Job, NEW d \in Conn, NEW k
      PROVE  ~Load(j, d, k)
  BY DEF Load
<1>7. ASSUME NEW d \in Conn
      PROVE  /\ ~Turn(d) /\ ~UpstreamStep(d) /\ ~Age(d)
             /\ \A t : ~RotationExpires(d, t) /\ ~StrayAnswer(d, t)
  BY DEF Turn, UpstreamStep, Age, RotationExpires, StrayAnswer, Control, TypeOK, Row
<1>8. ASSUME NEW d \in Conn
      PROVE  ~Settle(d)
  BY <1>4 DEF Settle
<1>9. ~Crash /\ ~UNCHANGED vars
  BY DEF Crash, vars
<1>10. PICK j \in Job : ReactiveGivesUp(j) \/ SweepGivesUp(j)
  BY <1>5, <1>6, <1>7, <1>8, <1>9 DEF Next, FlightStep
<1>11. job[j].pc = "answered" /\ job[j].got = Dead /\ job[j].conn \in Conn
  BY <1>10 DEF ReactiveGivesUp, SweepGivesUp, Control, Attached
<1>12. job[j].conn = c
  <2>1. row' = row \/ \E r : row' = [row EXCEPT ![job[j].conn] = r]
    BY <1>2, <1>10, <1>11 DEF ReactiveGivesUp, SweepGivesUp
  <2> QED
    BY <1>11, <2>1 DEF Control, TypeOK
<1> QED
  BY <1>11, <1>12 DEF At

\* As long as nothing muddles it, a connection is deactivated only when it is
\* stuck: its row's token is not the one upstream would accept.
LEMMA CalmStaysActive ==
  ASSUME LiveInv, [Next]_vars, NEW c \in Conn \ Direct, Calm(c), row[c].active, ~row'[c].active
  PROVE  row[c].tok # newest[c]
<1>1. PICK j \in Job : At(j, c) /\ job[j].pc = "answered" /\ job[j].got = Dead
  BY DeactivatedIsTold DEF LiveInv
<1>2. ~Good(c)
  BY <1>1 DEF Good, JobGood, Dead
<1> QED
  BY <1>2 DEF LiveInv, GoodOrStuck, Stuck

\* Upstream refuses no access token that is fresh.
NeverOdd == \A c \in Conn : "odd401" \notin Hazards[c]

\* What has gone wrong may go wrong.
Foreseen == \A c \in Conn : mishap[c] \subseteq Hazards[c]

LEMMA ForeseenStays ==
  ASSUME Control, Foreseen, [Next]_vars
  PROVE  Foreseen'
<1>1. \A d \in Conn : \A k : Mishap(d, k) => Foreseen'
  BY DEF Mishap, MayHappen, Foreseen, Control, TypeOK
<1>2. ASSUME Crash
      PROVE  Foreseen'
  <2>1. \A c \in Conn : "crash" \in Hazards[c]
    BY <1>2 DEF Crash, MayHappen
  <2>2. \A c \in Conn : mishap'[c] = mishap[c] \union {"crash"}
    BY <1>2 DEF Crash
  <2> QED
    BY <2>1, <2>2 DEF Foreseen
<1> QED
  BY <1>1, <1>2, WhatGoesWrong, TokenRefreshAssumption DEF Foreseen, LoseAnswer

\* Where upstream refuses no fresh access token, and all refreshes of an account
\* go through getAccessToken: no caller, and no number of them, deactivates a
\* connection that upstream would still serve with the token in its row.  Answers
\* may get lost and the process may restart.  Excepted, for the connection they
\* concern, are failing reads and writes of the row, abandoned refreshes, and a
\* good token that upstream refused for no reason.
THEOREM LiveStayActive == ASSUME NeverOdd PROVE Spec => LiveAccountsStayActive
<1>1. Init => Foreseen
  BY DEF Init, Foreseen
<1>2. LiveInv /\ Foreseen /\ [Next]_vars => Foreseen'
  BY ForeseenStays DEF LiveInv
<1>3. LiveInv /\ Foreseen /\ [Next]_vars =>
         [\A c \in Conn \ Direct : row[c].active /\ ~row'[c].active =>
            \/ ~alive[c] \/ row[c].tok # newest[c]
            \/ mishap'[c] \cap {"db", "timeout", "blip"} # {}]_vars
  <2> SUFFICES ASSUME LiveInv, Foreseen, [Next]_vars, NEW c \in Conn \ Direct,
                      row[c].active, ~row'[c].active,
                      mishap'[c] \cap {"db", "timeout", "blip"} = {}
               PROVE  row[c].tok # newest[c]
    OBVIOUS
  <2>1. mishap[c] \subseteq mishap'[c]
    BY NextKeeps DEF LiveInv, Keeps
  <2>2. Calm(c)
    BY <2>1 DEF Calm, Muddling, NeverOdd, Foreseen
  <2> QED
    BY <2>2, CalmStaysActive
<1> QED
  BY <1>1, <1>2, <1>3, LiveInvHolds, PTL DEF Spec, LiveAccountsStayActive
=============================================================================
