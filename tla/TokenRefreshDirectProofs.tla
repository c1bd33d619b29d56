---------------------- MODULE TokenRefreshDirectProofs ----------------------
(***************************************************************************)
(* Proofs about TokenRefresh: the rows of connections whose executor       *)
(* bypasses getAccessToken (kiro).  Their callers may present a token      *)
(* twice, and lose the family.  But as long as nothing goes wrong, who     *)
(* gets a new token is alone in having it, and writes it: the row ends     *)
(* with the newest token or, after the health check gave up, without one.  *)
(***************************************************************************)
EXTENDS TokenRefreshProofs

\* Caller j holds new tokens it got from upstream directly.
Carrier(j) == Bypasses(j) /\ job[j].pc \in {"answered", "leaving"} /\ job[j].got.is = "ok"

\* A token has been issued for connection c that is not written yet.
Ahead(c) == Rotating(c) \/ \E j \in Job : At(j, c) /\ Carrier(j)

\* Caller j may present the token it has.
Presents(j) ==
    \/ job[j].pc \in {"outer", "ready", "calling"}
    \/ job[j].pc = "answered" /\ Bypasses(j) /\ job[j].got.is # "ok"

\* Token t of connection c: the newest is known to somebody only as long as the
\* row has not been brought up to date with it.
Useful(c, t) == /\ t <= newest[c]
                /\ t = newest[c] => ~Ahead(c) /\ ~row[c].fresh

\* The row is the newest token's, or was cleared, or somebody is about to write.
RowPassed(c) ==
    /\ \A t \in rotated[c] : newest[c] = t + 1
    /\ rotated[c] # {} => row[c].tok = newest[c] /\ row[c].fresh
    /\ row[c].tok <= newest[c]
    /\ row[c].tok = 0 => ~row[c].fresh
    /\ Ahead(c) => ~row[c].fresh /\ row[c].tok # newest[c]
    /\ ~Ahead(c) => row[c].tok \in {0, newest[c]}
    /\ stray[c] = {}

\* Refreshes of the connection are started by the health check or by the check
\* of a routed request, which wait for them, and persist without a guard.
OwnRefresh(c) ==
    /\ flight[c].kind \notin {"usage", "reactive"}
    /\ flight[c].want = 0
    /\ \A j \in Job : flight[c].by = j => job[j].pc = "waiting"

FlightPassed(c) ==
    /\ Rotating(c) => /\ flight[c].got.tok = newest[c]
                      /\ newest[c] = flight[c].tok + 1
                      /\ \A j \in Job : At(j, c) => ~Carrier(j)
    /\ flight[c].pc \in {"queued", "posting"} => Useful(c, flight[c].tok)
    /\ flight[c].pc # "none" => OwnRefresh(c)

JobPassed(c, j) ==
    /\ Presents(j) => Useful(c, job[j].tok)
    /\ Carrier(j) => /\ job[j].got.tok = newest[c]
                     /\ \A i \in Job : At(i, c) /\ Carrier(i) => i = j
    /\ job[j].pc = "answered" /\ ~Bypasses(j) /\ job[j].got.is = "ok" =>
          job[j].got.tok = newest[c] /\ row[c].tok = newest[c] /\ row[c].fresh

Passed(c) == /\ RowPassed(c)
             /\ FlightPassed(c)
             /\ \A j \in Job : At(j, c) => JobPassed(c, j)

\* Without a mishap the row of a connection that can be bypassed is never old.
PassedInv == \A c \in Direct : mishap[c] = {} => Passed(c)

DirectInv == Control /\ PassedInv

(***************************************************************************)
(* Three kinds of steps: to leave the tokens as they are, to be given a    *)
(* new one, and to write it.                                               *)
(***************************************************************************)

\* Caller i has moved, to where its token and its answer may be.
Fits(c, i) ==
    /\ Presents(i)' => Useful(c, job'[i].tok)
    /\ Carrier(i)' => job'[i].got.tok = newest[c]
    /\ job'[i].pc = "answered" /\ ~Bypasses(i)' /\ job'[i].got.is = "ok" =>
          job'[i].got.tok = newest[c] /\ row[c].tok = newest[c] /\ row[c].fresh

LEMMA PassedSame ==
  ASSUME NEW c \in Conn, Passed(c),
         newest'[c] = newest[c], rotated'[c] = rotated[c], stray'[c] = stray[c],
         row'[c].tok = row[c].tok, row'[c].fresh = row[c].fresh,
         Rotating(c)' <=> Rotating(c),
         Rotating(c) => flight'[c].tok = flight[c].tok /\ flight'[c].got = flight[c].got,
         flight'[c].pc \in {"queued", "posting"} => Useful(c, flight'[c].tok),
         flight'[c].pc # "none" => OwnRefresh(c)',
         \A i \in Job : (At(i, c) /\ Carrier(i))' <=> At(i, c) /\ Carrier(i),
         \A i \in Job : At(i, c)' => job'[i] = job[i] \/ Fits(c, i)
  PROVE  Passed(c)'
<1>1. Ahead(c)' <=> Ahead(c)
  BY DEF Ahead
<1>2. \A t : Useful(c, t) => Useful(c, t)'
  BY <1>1 DEF Useful
<1>3. RowPassed(c)'
  BY <1>1 DEF Passed, RowPassed
<1>4. FlightPassed(c)'
  <2>1. Rotating(c)' => /\ flight'[c].got.tok = newest'[c]
                        /\ newest'[c] = flight'[c].tok + 1
                        /\ \A j \in Job : At(j, c)' => ~Carrier(j)'
    BY DEF Passed, FlightPassed
  <2>2. flight'[c].pc \in {"queued", "posting"} => Useful(c, flight[c].tok)'
    BY <1>1 DEF Useful
  <2> QED
    BY <2>1, <2>2 DEF FlightPassed
<1>5. ASSUME NEW i \in Job, At(i, c)'
      PROVE  JobPassed(c, i)'
  <2>1. /\ Presents(i)' => Useful(c, job'[i].tok)
        /\ Carrier(i)' => job'[i].got.tok = newest[c]
        /\ job'[i].pc = "answered" /\ ~Bypasses(i)' /\ job'[i].got.is = "ok" =>
              job'[i].got.tok = newest[c] /\ row[c].tok = newest[c] /\ row[c].fresh
    <3>1. CASE job'[i] = job[i]
      <4>1. At(i, c) /\ JobPassed(c, i)
        BY <1>5, <3>1 DEF At, Passed
      <4> QED
        BY <3>1, <4>1 DEF JobPassed, Presents, Carrier, Bypasses
    <3>2. CASE Fits(c, i)
      BY <3>2 DEF Fits
    <3> QED
      BY <1>5, <3>1, <3>2
  <2>2. Carrier(i)' => \A k \in Job : At(k, c)' /\ Carrier(k)' => k = i
    BY <1>5 DEF Passed, JobPassed
  <2>3. Presents(i)' => Useful(c, job[i].tok)'
    BY <1>1, <2>1 DEF Useful
  <2> QED
    BY <2>1, <2>2, <2>3 DEF JobPassed
<1> QED
  BY <1>3, <1>4, <1>5 DEF Passed

\* Only caller j moves, and the others are left alone.
LEMMA PassedCaller ==
  ASSUME Control, NEW c \in Conn, NEW j \in Job, Passed(c),
         newest'[c] = newest[c], rotated'[c] = rotated[c], stray'[c] = stray[c],
         row'[c].tok = row[c].tok, row'[c].fresh = row[c].fresh, flight'[c] = flight[c],
         \A i \in Job : i # j => job'[i] = job[i],
         job[j].pc # "waiting",
         (At(j, c) /\ Carrier(j))' <=> At(j, c) /\ Carrier(j),
         At(j, c)' => Fits(c, j)
  PROVE  Passed(c)'
<1>1. Rotating(c)' <=> Rotating(c)
  BY DEF Rotating
<1>2. \A i \in Job : (At(i, c) /\ Carrier(i))' <=> At(i, c) /\ Carrier(i)
  BY DEF At, Carrier, Bypasses
<1>3. /\ flight'[c].pc \in {"queued", "posting"} => Useful(c, flight'[c].tok)
      /\ flight'[c].pc # "none" => OwnRefresh(c)'
  BY DEF Passed, FlightPassed, OwnRefresh
<1> QED
  BY <1>1, <1>2, <1>3, PassedSame

\* Nothing about the connection moves.
LEMMA PassedFrame ==
  ASSUME Control, NEW c \in Conn, Passed(c), SameData(c),
         \A i \in Job : At(i, c) \/ At(i, c)' => job'[i] = job[i]
  PROVE  Passed(c)'
<1>1. Rotating(c)' <=> Rotating(c)
  BY DEF Rotating, SameData
<1>2. \A i \in Job : (At(i, c) /\ Carrier(i))' <=> At(i, c) /\ Carrier(i)
  BY DEF At, Carrier, Bypasses
<1>3. /\ flight'[c].pc \in {"queued", "posting"} => Useful(c, flight'[c].tok)
      /\ flight'[c].pc # "none" => OwnRefresh(c)'
  <2>1. \A i \in Job : flight[c].by = i => job[i].conn = c
    BY DEF Control, StarterStays
  <2> QED
    BY <2>1 DEF Passed, FlightPassed, SameData, OwnRefresh, At
<1> QED
  BY <1>1, <1>2, <1>3, PassedSame DEF SameData

\* Upstream replaces the newest token: nobody else has new tokens by then, and
\* the row has none.
LEMMA PassedAccept ==
  ASSUME Control, NEW c \in Conn, Passed(c), Useful(c, newest[c]), Quiet,
         newest'[c] = newest[c] + 1, rotated'[c] = rotated[c], stray'[c] = stray[c],
         row'[c] = row[c], Ahead(c)'
  PROVE  /\ RowPassed(c)'
         /\ ~Ahead(c)
         /\ \A t \in Nat : Useful(c, t) => Useful(c, t)'
<1>1. newest[c] \in Nat /\ newest[c] # 0 /\ row[c].tok \in Nat
  BY DEF Control, TypeOK, Token, Row
<1>2. ~Ahead(c) /\ ~row[c].fresh
  BY DEF Useful
<1>3. rotated[c] = {} /\ row[c].tok \in {0, newest[c]}
  BY <1>2 DEF Passed, RowPassed
<1>4. RowPassed(c)'
  BY <1>1, <1>2, <1>3 DEF Passed, RowPassed
<1>5. \A t \in Nat : Useful(c, t) => Useful(c, t)'
  BY <1>1 DEF Useful
<1> QED
  BY <1>2, <1>4, <1>5

\* The newest token is written, or has been: who may present a token has an
\* older one.
LEMMA PassedWritten ==
  ASSUME Control, NEW c \in Conn, Passed(c), Ahead(c),
         newest'[c] = newest[c], stray'[c] = stray[c],
         \A t \in rotated'[c] : newest[c] = t + 1,
         row'[c].tok = newest[c], row'[c].fresh, ~Ahead(c)'
  PROVE  /\ RowPassed(c)'
         /\ \A t \in Nat : Useful(c, t) => Useful(c, t)'
<1>1. newest[c] \in Nat /\ newest[c] # 0
  BY DEF Control, TypeOK, Token
<1>2. \A t \in Nat : Useful(c, t) => t # newest[c]
  BY DEF Useful
<1> QED
  BY <1>1, <1>2 DEF Passed, RowPassed, Useful

(***************************************************************************)
(* The steps keep Passed.                                                  *)
(***************************************************************************)

LEMMA PassedLoad ==
  ASSUME Control, NEW c \in Conn, NEW j \in Job, NEW k \in AllKinds, Load(j, c, k),
         Passed(c), Spared(c)
  PROVE  Passed(c)'
<1>1. /\ UNCHANGED <<newest, row, rotated, flight, stray>>
      /\ \A i \in Job : i # j => job'[i] = job[i]
      /\ job[j].pc = "idle" /\ row[c].tok # 0
  BY DEF Load, upstream, Control, TypeOK
<1>2. ~row[c].fresh
  BY DEF Load, Spared, Mishap, MayHappen, Control, TypeOK
<1>3. Useful(c, row[c].tok)
  BY <1>1, <1>2 DEF Passed, RowPassed, Useful, Control, TypeOK, Token
<1>4. job'[j].pc \in {"outer", "ready"} /\ job'[j].tok = row[c].tok
  <2>1. PICK pc \in {"outer", "ready"} : job'[j] =
           [Idle EXCEPT !.pc = pc, !.conn = c, !.kind = k, !.tok = row[c].tok, !.first = row[c].tok]
    BY DEF Load, Control, TypeOK
  <2> QED
    BY <2>1 DEF Idle
<1>5. Fits(c, j) /\ ~Carrier(j)' /\ ~At(j, c)
  BY <1>1, <1>3, <1>4 DEF Fits, Carrier, At
<1> QED
  BY <1>1, <1>5, PassedCaller

\* A caller goes on, leaves without new tokens, or is told what the row has.
LEMMA PassedGoesOn ==
  ASSUME Control, NEW c \in Conn, NEW j \in Job, job[j].conn = c, Passed(c),
         \/ UsageTurn(j) \/ JoinFlight(j) \/ DirectCall(j) \/ UsageAnswered(j) \/ GoOn(j)
  PROVE  Passed(c)'
<1>1. /\ UNCHANGED <<newest, row, rotated, flight, stray>>
      /\ \A i \in Job : i # j => job'[i] = job[i]
      /\ At(j, c) /\ JobPassed(c, j) /\ job[j].pc # "waiting"
  BY DEF UsageTurn, JoinFlight, DirectCall, UsageAnswered, GoOn, Done, upstream, memory,
         Control, TypeOK, At, Passed
<1>2. CASE UsageTurn(j) \/ JoinFlight(j) \/ DirectCall(j)
  <2>1. /\ job[j].pc \in {"outer", "ready"} /\ job'[j].pc \in {"ready", "waiting", "calling"}
        /\ job'[j].tok = job[j].tok
    BY <1>2 DEF UsageTurn, JoinFlight, DirectCall, Control, TypeOK, JobState
  <2>2. Fits(c, j) /\ ~Carrier(j) /\ ~Carrier(j)'
    BY <1>1, <2>1 DEF Fits, Carrier, JobPassed, Presents
  <2> QED
    BY <1>1, <2>2, PassedCaller
<1>3. CASE UsageAnswered(j)
  <2>1. /\ job[j].pc = "answered" /\ job'[j].pc = "leaving"
        /\ job'[j].conn = c /\ job'[j].kind = job[j].kind /\ job'[j].got = job[j].got
    BY <1>3 DEF UsageAnswered, Control, TypeOK, JobState
  <2>2. (Carrier(j)' <=> Carrier(j)) /\ (At(j, c)' <=> At(j, c))
    BY <1>1, <2>1 DEF Carrier, Bypasses, At
  <2>3. Fits(c, j)
    BY <1>1, <2>1, <2>2 DEF Fits, JobPassed, Presents
  <2> QED
    BY <1>1, <2>2, <2>3, PassedCaller
<1>4. CASE GoOn(j)
  <2>1. job'[j].pc = "idle" /\ ~Bypasses(j)
    BY <1>4 DEF GoOn, Done, Idle, Bypasses, Control, TypeOK
  <2>2. ~At(j, c)' /\ ~Carrier(j)
    BY <2>1 DEF At, Carrier
  <2> QED
    BY <1>1, <2>2, PassedCaller
<1> QED
  BY <1>2, <1>3, <1>4

LEMMA PassedRetries ==
  ASSUME Control, NEW c \in Conn, NEW j \in Job, job[j].conn = c, c \in Direct, Passed(c),
         ReactiveRetries(j)
  PROVE  Passed(c)'
<1>1. /\ UNCHANGED <<newest, row, rotated, stray>>
      /\ \A i \in Job : i # j => job'[i] = job[i]
      /\ At(j, c) /\ JobPassed(c, j) /\ Bypasses(j)
      /\ job[j].pc = "answered" /\ job[j].got = Null
  BY DEF ReactiveRetries, Retry, Done, upstream, Control, TypeOK, At, Passed, Bypasses
<1>2. flight'[c] = flight[c]
  <2>1. flight[c].by # j
    BY <1>1 DEF Control, StarterStays
  <2> QED
    BY <2>1 DEF ReactiveRetries, Retry
<1>3. Useful(c, job[j].tok) /\ ~Carrier(j)
  BY <1>1 DEF JobPassed, Presents, Carrier, Null
<1>4. job'[j].pc = "idle" \/ (job'[j].pc = "ready" /\ job'[j].tok = job[j].tok)
  BY DEF ReactiveRetries, Retry, Done, Idle, Control, TypeOK, JobState
<1>5. (At(j, c)' => Fits(c, j)) /\ ~Carrier(j)'
  BY <1>3, <1>4 DEF Fits, Carrier, At
<1> QED
  BY <1>1, <1>2, <1>3, <1>5, PassedCaller

\* A caller that is told the token is dead leaves the row as it is, but for
\* isActive, or clears it.
LEMMA PassedGivesUp ==
  ASSUME Control, NEW c \in Conn, NEW j \in Job, job[j].conn = c, Passed(c), Spared(c),
         ReactiveGivesUp(j) \/ SweepGivesUp(j)
  PROVE  Passed(c)'
<1>1. /\ UNCHANGED <<newest, rotated, flight, stray>>
      /\ \A i \in Job : i # j => job'[i] = job[i]
      /\ job[j].pc = "answered" /\ job[j].got = Dead /\ job'[j].pc = "idle"
  BY DEF ReactiveGivesUp, SweepGivesUp, Done, Idle, upstream, memory, Control, TypeOK
<1>2. ~Carrier(j) /\ ~At(j, c)'
  BY <1>1 DEF Carrier, Dead, At
<1>3. row[c] \in Row /\ newest[c] \in Nat /\ newest[c] # 0
  BY DEF Control, TypeOK, Token
<1>4. CASE row'[c].tok = row[c].tok /\ row'[c].fresh = row[c].fresh
  BY <1>1, <1>2, <1>4, PassedCaller
<1>5. CASE ~row[c].fresh /\ row'[c] = [row[c] EXCEPT !.active = FALSE, !.tok = 0]
  <2>1. row'[c].tok = 0 /\ row'[c].fresh = FALSE
    BY <1>3, <1>5 DEF Row
  <2>2. \A i \in Job : /\ (At(i, c) /\ Carrier(i))' <=> At(i, c) /\ Carrier(i)
                       /\ At(i, c)' => At(i, c) /\ job'[i] = job[i]
    BY <1>1, <1>2 DEF At, Carrier, Bypasses
  <2>3. Rotating(c)' <=> Rotating(c)
    BY <1>1 DEF Rotating
  <2>4. Ahead(c)' <=> Ahead(c)
    BY <2>2, <2>3 DEF Ahead
  <2>5. \A t : Useful(c, t) => Useful(c, t)'
    BY <1>1, <2>1, <2>4 DEF Useful
  <2>6. RowPassed(c)'
    BY <1>1, <1>3, <1>5, <2>1, <2>4 DEF Passed, RowPassed
  <2>7. FlightPassed(c)'
    BY <1>1, <2>2, <2>3, <2>5 DEF Passed, FlightPassed, OwnRefresh, Useful
  <2>8. ASSUME NEW i \in Job, At(i, c)'
        PROVE  JobPassed(c, i)'
    <3>1. At(i, c) /\ job'[i] = job[i] /\ JobPassed(c, i)
      BY <2>2, <2>8 DEF Passed
    <3>2. (Presents(i)' <=> Presents(i)) /\ (Carrier(i)' <=> Carrier(i)) /\ (Bypasses(i)' <=> Bypasses(i))
      BY <3>1 DEF Presents, Carrier, Bypasses
    <3>3. Presents(i)' => Useful(c, job[i].tok)'
      BY <1>1, <2>1, <2>4, <3>1, <3>2 DEF JobPassed, Useful
    <3> QED
      BY <1>1, <1>5, <2>2, <3>1, <3>2, <3>3 DEF JobPassed
  <2> QED
    BY <2>6, <2>7, <2>8 DEF Passed
<1>6. \/ row'[c].tok = row[c].tok /\ row'[c].fresh = row[c].fresh
      \/ ~row[c].fresh /\ row'[c] = [row[c] EXCEPT !.active = FALSE, !.tok = 0]
  <2>1. CASE ReactiveGivesUp(j)
    <3>1. row' = row \/ row'[c] = [row[c] EXCEPT !.active = FALSE]
      BY <2>1 DEF ReactiveGivesUp, Write, Control, TypeOK
    <3> QED
      BY <1>3, <3>1 DEF Row
  <2>2. CASE SweepGivesUp(j)
    BY <2>2 DEF SweepGivesUp, Write, Control, TypeOK
  <2> QED
    BY <2>1, <2>2
<1> QED
  BY <1>4, <1>5, <1>6

\* A caller is served from memory or from the row, which has the newest token.
LEMMA PassedServed ==
  ASSUME Control, NEW c \in Conn, NEW j \in Job, job[j].conn = c, c \in Direct, CanStart(j),
         Passed(c), Spared(c), NEW f \in Flight, NEW got \in Result,
         f.by = j, f.kind = job[j].kind, got.is = "ok", got.tok = newest[c],
         row[c].tok = newest[c], row[c].fresh,
         Finish(c, f, got, {j}), UNCHANGED <<newest, rotated, stray>>
  PROVE  Passed(c)'
<1>1. flight[c].pc = "none" /\ job[j].pc = "ready" /\ ~Bypasses(j)
  BY DEF CanStart
<1>2. {j} \in SUBSET Job
  OBVIOUS
<1>3. /\ flight'[c] = NoFlight /\ mishap' = mishap
      /\ row'[c].tok = newest[c] /\ row'[c].fresh
  BY <1>2, FinishRow
<1>4. row'[c].fresh = row[c].fresh
  <2>1. row[c].fresh \in BOOLEAN /\ row'[c].fresh \in BOOLEAN
    <3>1. row' \in [Conn -> Row]
      BY <1>2, FinishType DEF Control
    <3> QED
      BY <3>1 DEF Control, TypeOK, Row
  <2> QED
    BY <1>3, <2>1
<1>5. Told(c, f, got) = got /\ Seen(c, job[j].kind, got) = got
  BY <1>3 DEF Told, Seen, Dead
<1>6. /\ job'[j].pc = "answered" /\ job'[j].conn = c /\ job'[j].kind = job[j].kind
      /\ job'[j].got = got
  BY <1>2, <1>5, FinishJobs DEF Control
<1>7. \A i \in Job : i # j => job'[i] = job[i]
  BY <1>2, FinishMoves DEF Control
<1>8. ~Carrier(j) /\ ~Carrier(j)' /\ Fits(c, j)
  BY <1>1, <1>6 DEF Carrier, Bypasses, Fits, Presents
<1>9. ~Rotating(c) /\ ~Rotating(c)' /\ flight'[c].pc = "none"
  BY <1>1, <1>3 DEF Rotating, NoFlight
<1>10. \A i \in Job : /\ (At(i, c) /\ Carrier(i))' <=> At(i, c) /\ Carrier(i)
                      /\ job'[i] = job[i] \/ Fits(c, i)
  BY <1>7, <1>8 DEF At, Carrier, Bypasses
<1> QED
  BY <1>3, <1>4, <1>9, <1>10, PassedSame

LEMMA PassedFromMemory ==
  ASSUME Control, NEW c \in Conn, NEW j \in Job, job[j].conn = c, c \in Direct,
         Passed(c), Spared(c), RotationHit(j) \/ UseRow(j)
  PROVE  Passed(c)'
<1>1. /\ CanStart(j) /\ UNCHANGED <<newest, rotated, stray>>
      /\ newest[c] \in Nat /\ newest[c] # 0 /\ job[j].tok \in Nat
  BY DEF RotationHit, UseRow, upstream, Control, TypeOK, Token, JobState
<1>2. PICK got \in Result : /\ got.is = "ok" /\ got.tok = newest[c]
                            /\ row[c].tok = newest[c] /\ row[c].fresh
                            /\ Finish(c, FlightOf(j, job[j].tok), got, {j})
  <2>1. CASE RotationHit(j)
    <3>1. job[j].tok \in rotated[c] /\ Finish(c, FlightOf(j, job[j].tok), Ok(job[j].tok + 1), {j})
      BY <2>1 DEF RotationHit
    <3>2. newest[c] = job[j].tok + 1 /\ row[c].tok = newest[c] /\ row[c].fresh
      BY <3>1 DEF Passed, RowPassed
    <3>3. Ok(job[j].tok + 1) \in Result
      BY <1>1, ResultTypes
    <3> QED
      BY <3>1, <3>2, <3>3 DEF Ok
  <2>2. CASE UseRow(j)
    <3>1. row[c].tok # 0 /\ row[c].fresh /\ Finish(c, FlightOf(j, job[j].tok), Ok(row[c].tok), {j})
      BY <2>2 DEF UseRow, RowIsNewer
    <3>2. row[c].tok = newest[c]
      BY <3>1 DEF Passed, RowPassed
    <3>3. Ok(row[c].tok) \in Result
      BY <1>1, <3>2, ResultTypes
    <3> QED
      BY <3>1, <3>2, <3>3 DEF Ok
  <2> QED
    BY <2>1, <2>2
<1>3. PICK f \in Flight : f = FlightOf(j, job[j].tok)
  BY <1>1, FlightOfType DEF Control
<1>4. f.by = j /\ f.kind = job[j].kind
  BY <1>3 DEF FlightOf, NoFlight
<1> QED
  BY <1>1, <1>2, <1>3, <1>4, PassedServed

\* A refresh presents the row's token or the caller's, which may be the newest
\* only as long as nobody has been given another.
LEMMA PassedEnqueue ==
  ASSUME Control, NEW c \in Conn, NEW j \in Job, job[j].conn = c, c \in Direct,
         Passed(c), Spared(c), Enqueue(j)
  PROVE  Passed(c)'
<1>1. /\ job[j].pc = "ready" /\ ~Bypasses(j) /\ flight[c].pc = "none" /\ At(j, c)
      /\ UNCHANGED <<newest, row, rotated, stray>>
  BY DEF Enqueue, CanStart, At, upstream
<1>2. PICK t \in {job[j].tok, row[c].tok} :
        /\ \/ /\ ~(RowIsNewer(j) /\ row[c].fresh)
              /\ t = IF RowIsNewer(j) THEN row[c].tok ELSE job[j].tok
           \/ Mishap(c, "db")
        /\ flight' = [flight EXCEPT ![c] = FlightOf(j, t)]
        /\ job' = [job EXCEPT ![j].pc = "waiting", ![j].tok = t]
  BY DEF Enqueue
<1>3. Useful(c, t)
  <2>1. /\ ~(RowIsNewer(j) /\ row[c].fresh)
        /\ t = IF RowIsNewer(j) THEN row[c].tok ELSE job[j].tok
    BY <1>2 DEF Spared, Mishap, MayHappen, Control, TypeOK
  <2>2. CASE RowIsNewer(j)
    BY <2>1, <2>2 DEF Passed, RowPassed, Useful
  <2>3. CASE ~RowIsNewer(j)
    BY <1>1, <2>1, <2>3 DEF Passed, JobPassed, Presents
  <2> QED
    BY <2>2, <2>3
<1>4. /\ FlightOf(j, t).pc = "queued" /\ FlightOf(j, t).tok = t
      /\ FlightOf(j, t).by = j /\ FlightOf(j, t).kind = job[j].kind
      /\ job[j].kind # "reactive" => FlightOf(j, t).want = 0
  BY DEF FlightOf, NoFlight
<1>5. job[j].kind \notin {"usage", "reactive"}
  BY <1>1 DEF Bypasses
<1>6. /\ \A i \in Job : i # j => job'[i] = job[i]
      /\ job'[j].pc = "waiting" /\ job'[j].conn = c /\ job'[j].kind = job[j].kind
  BY <1>2 DEF Control, TypeOK, JobState
<1>7. flight'[c] = FlightOf(j, t)
  BY <1>2 DEF Control, TypeOK
<1>8. ~Rotating(c) /\ ~Rotating(c)'
  BY <1>1, <1>4, <1>7 DEF Rotating
<1>9. OwnRefresh(c)'
  BY <1>4, <1>5, <1>6, <1>7 DEF OwnRefresh
<1>10. ~Carrier(j) /\ ~Carrier(j)' /\ Fits(c, j)
  BY <1>1, <1>6 DEF Carrier, Fits, Presents
<1>11. \A i \in Job : /\ (At(i, c) /\ Carrier(i))' <=> At(i, c) /\ Carrier(i)
                      /\ job'[i] = job[i] \/ Fits(c, i)
  BY <1>6, <1>10 DEF At, Carrier, Bypasses
<1> QED
  BY <1>1, <1>3, <1>4, <1>7, <1>8, <1>9, <1>11, PassedSame

LEMMA PassedTurn ==
  ASSUME Control, NEW c \in Conn, Passed(c), Turn(c)
  PROVE  Passed(c)'
<1>1. /\ UNCHANGED <<newest, row, rotated, stray, job>>
      /\ flight[c].pc = "queued" /\ flight'[c].pc = "posting"
      /\ flight'[c].tok = flight[c].tok /\ flight'[c].kind = flight[c].kind
      /\ flight'[c].want = flight[c].want /\ flight'[c].by = flight[c].by
  BY DEF Turn, upstream, Control, TypeOK, Flight
<1>2. ~Rotating(c) /\ ~Rotating(c)'
  BY <1>1 DEF Rotating
<1>3. Useful(c, flight'[c].tok) /\ OwnRefresh(c)'
  BY <1>1 DEF Passed, FlightPassed, OwnRefresh
<1>4. \A i \in Job : (At(i, c) /\ Carrier(i))' <=> At(i, c) /\ Carrier(i)
  BY <1>1 DEF At, Carrier, Bypasses
<1> QED
  BY <1>1, <1>2, <1>3, <1>4, PassedSame

\* Upstream accepts the newest token only.
LEMMA OutcomeGives ==
  ASSUME Control, NEW c \in Conn, NEW t, NEW got, Outcome(c, t, got), Spared(c)
  PROVE  \/ t = newest[c] /\ newest'[c] = newest[c] + 1 /\ got = Ok(newest[c] + 1)
         \/ newest'[c] = newest[c] /\ got.is # "ok"
<1>1. \A k : ~Mishap(c, k)
  BY DEF Mishap, MayHappen, Spared, Control, TypeOK
<1>2. CASE Accept(c, t, got)
  BY <1>1, <1>2 DEF Accept, Control, TypeOK
<1>3. CASE Refuse(c, t, got)
  BY <1>3 DEF Refuse, Dead
<1>4. CASE FailCall(c, t, got)
  BY <1>4 DEF FailCall, upstream, Null
<1> QED
  BY <1>2, <1>3, <1>4 DEF Outcome

LEMMA PassedUpstream ==
  ASSUME Control, NEW c \in Conn, Passed(c), Spared(c), UpstreamStep(c)
  PROVE  Passed(c)'
<1>0. PICK got \in Answers(c) :
        /\ Outcome(c, flight[c].tok, got)
        /\ flight' = [flight EXCEPT ![c].pc = "settling", ![c].got = got]
  BY DEF UpstreamStep
<1>1. /\ UNCHANGED <<row, rotated, stray, job>> /\ Quiet
      /\ flight[c].pc = "posting" /\ flight'[c].pc = "settling" /\ flight'[c].got = got
      /\ flight'[c].tok = flight[c].tok /\ flight'[c].kind = flight[c].kind
      /\ flight'[c].want = flight[c].want /\ flight'[c].by = flight[c].by
  BY <1>0 DEF UpstreamStep, Control, TypeOK, Flight
<1>2. ~Rotating(c) /\ Useful(c, flight[c].tok) /\ OwnRefresh(c)'
  BY <1>1 DEF Rotating, Passed, FlightPassed, OwnRefresh
<1>3. \A i \in Job : (At(i, c)' <=> At(i, c)) /\ (Carrier(i)' <=> Carrier(i))
                     /\ (Presents(i)' <=> Presents(i))
  BY <1>1 DEF At, Carrier, Presents, Bypasses
<1>4. CASE newest'[c] = newest[c] /\ got.is # "ok"
  <2>1. ~Rotating(c)'
    BY <1>1, <1>4 DEF Rotating
  <2> QED
    BY <1>1, <1>2, <1>3, <1>4, <2>1, PassedSame
<1>5. CASE flight[c].tok = newest[c] /\ newest'[c] = newest[c] + 1 /\ got = Ok(newest[c] + 1)
  <2>1. Rotating(c)' /\ Ahead(c)'
    BY <1>1, <1>5 DEF Rotating, Ahead, Ok
  <2>2. /\ RowPassed(c)' /\ ~Ahead(c)
        /\ \A t \in Nat : Useful(c, t) => Useful(c, t)'
    BY <1>1, <1>2, <1>5, <2>1, PassedAccept
  <2>3. \A i \in Job : At(i, c) => ~Carrier(i) /\ job[i].pc # "answered"
    BY <1>1, <2>2 DEF Ahead, Quiet
  <2>4. FlightPassed(c)'
    BY <1>1, <1>2, <1>3, <1>5, <2>3 DEF FlightPassed, Ok
  <2>5. ASSUME NEW i \in Job, At(i, c)'
        PROVE  JobPassed(c, i)'
    <3>1. At(i, c) /\ JobPassed(c, i) /\ job[i].tok \in Nat
      BY <1>3, <2>5 DEF Passed, Control, TypeOK, JobState
    <3>2. Presents(i) => Useful(c, job[i].tok)'
      BY <1>1, <2>2, <3>1 DEF JobPassed, Useful
    <3>3. Presents(i)' => Useful(c, job[i].tok)'
      BY <1>3, <3>2
    <3> QED
      BY <1>1, <1>3, <2>3, <3>1, <3>3 DEF JobPassed
  <2> QED
    BY <2>2, <2>4, <2>5 DEF Passed
<1> QED
  BY <1>0, <1>4, <1>5, OutcomeGives

LEMMA PassedDirectAnswer ==
  ASSUME Control, NEW c \in Conn, NEW j \in Job, job[j].conn = c, Passed(c), Spared(c),
         DirectAnswer(j)
  PROVE  Passed(c)'
<1>0. PICK got \in Answers(c) :
        /\ Outcome(c, job[j].tok, got)
        /\ job' = [job EXCEPT ![j].pc = "answered", ![j].got = got]
  BY DEF DirectAnswer
<1>1. /\ UNCHANGED <<row, rotated, flight, stray>> /\ Quiet
      /\ \A i \in Job : i # j => job'[i] = job[i]
      /\ job[j].pc = "calling" /\ job'[j].pc = "answered" /\ job'[j].got = got
      /\ job'[j].conn = c /\ job'[j].kind = job[j].kind /\ job'[j].tok = job[j].tok
  BY <1>0 DEF DirectAnswer, memory, Control, TypeOK, JobState
<1>2. Bypasses(j) /\ Bypasses(j)' /\ ~Carrier(j) /\ At(j, c) /\ At(j, c)'
  BY <1>1 DEF Control, Bypassing, Bypasses, Carrier, At
<1>3. Useful(c, job[j].tok)
  BY <1>1, <1>2 DEF Passed, JobPassed, Presents
<1>4. CASE newest'[c] = newest[c] /\ got.is # "ok"
  <2>1. ~Carrier(j)' /\ Fits(c, j)
    BY <1>1, <1>2, <1>3, <1>4 DEF Carrier, Fits
  <2> QED
    BY <1>1, <1>2, <1>4, <2>1, PassedCaller
<1>5. CASE job[j].tok = newest[c] /\ newest'[c] = newest[c] + 1 /\ got = Ok(newest[c] + 1)
  <2>1. Carrier(j)' /\ Ahead(c)'
    BY <1>1, <1>2, <1>5 DEF Carrier, Ahead, Ok
  <2>2. /\ RowPassed(c)' /\ ~Ahead(c)
        /\ \A t \in Nat : Useful(c, t) => Useful(c, t)'
    BY <1>1, <1>3, <1>5, <2>1, PassedAccept
  <2>3. \A i \in Job : At(i, c) => ~Carrier(i) /\ job[i].pc # "answered"
    BY <1>1, <2>2 DEF Ahead, Quiet
  <2>4. \A i \in Job : i # j => /\ At(i, c)' <=> At(i, c)
                                /\ Carrier(i)' <=> Carrier(i)
                                /\ Presents(i)' <=> Presents(i)
    BY <1>1 DEF At, Carrier, Presents, Bypasses
  <2>5. ~Rotating(c)'
    BY <1>1, <2>2 DEF Rotating, Ahead
  <2>6. FlightPassed(c)'
    <3>1. flight[c].tok \in Nat
      BY DEF Control, TypeOK, Flight
    <3>2. flight[c].pc \in {"queued", "posting"} => Useful(c, flight[c].tok)'
      BY <1>1, <2>2, <3>1 DEF Passed, FlightPassed, Useful
    <3>3. flight[c].pc # "none" => OwnRefresh(c)'
      BY <1>1 DEF Passed, FlightPassed, OwnRefresh
    <3>4. flight'[c].pc \in {"queued", "posting"} => Useful(c, flight[c].tok)'
      BY <1>1, <3>2
    <3> QED
      BY <1>1, <2>5, <3>3, <3>4 DEF FlightPassed
  <2>7. JobPassed(c, j)'
    BY <1>1, <1>2, <1>5, <2>3, <2>4 DEF JobPassed, Presents, Ok
  <2>8. ASSUME NEW i \in Job, i # j, At(i, c)'
        PROVE  JobPassed(c, i)'
    <3>1. At(i, c) /\ JobPassed(c, i) /\ job[i].tok \in Nat
      BY <2>4, <2>8 DEF Passed, Control, TypeOK, JobState
    <3>2. Presents(i) => Useful(c, job[i].tok)'
      BY <1>1, <2>2, <2>8, <3>1 DEF JobPassed, Useful
    <3>3. Presents(i)' => Useful(c, job[i].tok)'
      BY <2>4, <2>8, <3>2
    <3> QED
      BY <1>1, <2>3, <2>4, <2>8, <3>1, <3>3 DEF JobPassed
  <2> QED
    BY <2>2, <2>6, <2>7, <2>8 DEF Passed
<1> QED
  BY <1>0, <1>4, <1>5, OutcomeGives

\* A caller that has the newest token alone writes it.
LEMMA PassedCarried ==
  ASSUME Control, NEW c \in Conn, NEW j \in Job, At(j, c), Carrier(j), Passed(c),
         UNCHANGED <<newest, rotated, flight, stray>>,
         row'[c].tok = newest[c], row'[c].fresh,
         \A i \in Job : i # j => job'[i] = job[i],
         job'[j].pc = "idle"
  PROVE  Passed(c)'
<1>1. ~Rotating(c) /\ ~Rotating(c)' /\ Ahead(c)
  BY DEF Passed, FlightPassed, Rotating, Ahead
<1>2. \A i \in Job : At(i, c)' => i # j /\ At(i, c) /\ ~Carrier(i) /\ ~Carrier(i)'
  BY DEF Passed, JobPassed, At, Carrier, Bypasses
<1>3. ~Ahead(c)'
  BY <1>1, <1>2 DEF Ahead
<1>4. /\ RowPassed(c)'
      /\ \A t \in Nat : Useful(c, t) => Useful(c, t)'
  BY <1>1, <1>3, PassedWritten DEF Passed, RowPassed
<1>5. FlightPassed(c)'
  <2>1. flight[c].tok \in Nat
    BY DEF Control, TypeOK, Flight
  <2>2. flight[c].pc \in {"queued", "posting"} => Useful(c, flight[c].tok)'
    BY <1>4, <2>1 DEF Passed, FlightPassed, Useful
  <2>3. flight[c].pc # "none" => OwnRefresh(c)'
    BY DEF Passed, FlightPassed, OwnRefresh, Carrier
  <2>4. flight'[c].pc \in {"queued", "posting"} => Useful(c, flight[c].tok)'
    BY <2>2
  <2> QED
    BY <1>1, <2>3, <2>4 DEF FlightPassed, Useful
<1>6. ASSUME NEW i \in Job, At(i, c)'
      PROVE  JobPassed(c, i)'
  <2>1. /\ job'[i] = job[i] /\ JobPassed(c, i) /\ ~Carrier(i) /\ ~Carrier(i)'
        /\ job[i].tok \in Nat /\ (Presents(i)' <=> Presents(i))
    BY <1>2, <1>6 DEF Passed, Presents, Bypasses, Control, TypeOK, JobState
  <2>2. Presents(i)' => Useful(c, job[i].tok)'
    BY <1>4, <2>1 DEF JobPassed, Useful
  <2>3. job[i].pc = "answered" /\ ~Bypasses(i) /\ job[i].got.is = "ok" => job[i].got.tok = newest[c]
    BY <2>1 DEF JobPassed
  <2>4. Bypasses(i)' <=> Bypasses(i)
    BY <2>1 DEF Bypasses
  <2> QED
    BY <2>1, <2>2, <2>3, <2>4 DEF JobPassed
<1> QED
  BY <1>4, <1>5, <1>6 DEF Passed

LEMMA PassedTakeTokens ==
  ASSUME Control, NEW c \in Conn, NEW j \in Job, job[j].conn = c, Passed(c), Spared(c),
         TakeTokens(j)
  PROVE  Passed(c)'
<1>1. /\ UNCHANGED <<newest, rotated, flight, stray>>
      /\ \A i \in Job : i # j => job'[i] = job[i]
      /\ job[j].pc = "answered" /\ job[j].got.is = "ok" /\ job'[j].pc = "idle"
      /\ At(j, c)
  BY DEF TakeTokens, Done, Idle, upstream, memory, Control, TypeOK, At
<1>2. \/ job[j].ran /\ row' = row
      \/ row'[c].tok = job[j].got.tok /\ row'[c].fresh
  <2>1. ~job[j].ran => Write(c, Stored(c, job[j].got.tok))
    BY DEF TakeTokens
  <2>2. job[j].ran => row' = row
    BY DEF TakeTokens
  <2> QED
    BY <2>1, <2>2, WriteLands, StoredIs
<1>3. CASE Bypasses(j)
  <2>1. Carrier(j) /\ ~job[j].ran
    BY <1>1, <1>3 DEF Carrier, Control, Bypassing
  <2>2. job[j].got.tok = newest[c]
    BY <1>1, <2>1 DEF Passed, JobPassed
  <2> QED
    BY <1>1, <1>2, <2>1, <2>2, PassedCarried
<1>4. CASE ~Bypasses(j)
  <2>1. job[j].got.tok = newest[c] /\ row[c].tok = newest[c] /\ row[c].fresh
    BY <1>1, <1>4 DEF Passed, JobPassed
  <2>2. row'[c].tok = row[c].tok /\ row'[c].fresh
    BY <1>2, <2>1
  <2>3. row'[c].fresh = row[c].fresh
    <3>1. row' \in [Conn -> Row]
      BY TakeTokensControl DEF Control, TypeOK
    <3> QED
      BY <2>1, <2>2, <3>1 DEF Control, TypeOK, Row
  <2>4. ~Carrier(j) /\ ~At(j, c)'
    BY <1>1, <1>4 DEF Carrier, At
  <2> QED
    BY <1>1, <2>2, <2>3, <2>4, PassedCaller
<1> QED
  BY <1>3, <1>4

LEMMA PassedUsageLeaves ==
  ASSUME Control, NEW c \in Conn, NEW j \in Job, job[j].conn = c, c \in Direct,
         Passed(c), Spared(c), UsageLeaves(j)
  PROVE  Passed(c)'
<1>1. /\ UNCHANGED <<newest, rotated, flight, stray>>
      /\ \A i \in Job : i # j => job'[i] = job[i]
      /\ job[j].pc = "leaving" /\ job'[j].pc = "idle" /\ At(j, c) /\ Bypasses(j)
  BY DEF UsageLeaves, Done, Idle, upstream, Control, TypeOK, Bypassing, Bypasses, At
<1>2. CASE job[j].got.is = "ok"
  <2>1. Carrier(j)
    BY <1>1, <1>2 DEF Carrier
  <2>2. Write(c, Stored(c, job[j].got.tok)) /\ job[j].got.tok = newest[c]
    BY <1>1, <1>2, <2>1 DEF UsageLeaves, Passed, JobPassed
  <2>3. row'[c].tok = newest[c] /\ row'[c].fresh
    BY <2>2, WriteLands, StoredIs
  <2> QED
    BY <1>1, <2>1, <2>3, PassedCarried
<1>3. CASE job[j].got.is # "ok"
  <2>1. row' = row
    BY <1>3 DEF UsageLeaves
  <2>2. ~Carrier(j) /\ ~At(j, c)'
    BY <1>1, <1>3 DEF Carrier, At
  <2> QED
    BY <1>1, <2>1, <2>2, PassedCaller
<1> QED
  BY <1>2, <1>3

\* A refresh ends: its callers learn the answer, and new tokens are written at
\* once, since who started it waits for it and no guard is in the way.
LEMMA PassedSettle ==
  ASSUME Control, NEW c \in Conn, Passed(c), Spared(c), Settle(c)
  PROVE  Passed(c)'
<1>1. /\ flight[c].pc = "settling" /\ OwnRefresh(c)
      /\ UNCHANGED <<newest, stray>>
      /\ rotated'[c] = IF flight[c].got.is = "ok" THEN rotated[c] \union {flight[c].tok}
                       ELSE rotated[c]
  BY DEF Settle, upstream, Control, TypeOK, Passed, FlightPassed
<1>2. PICK f \in Flight : f = flight[c]
  BY DEF Control, TypeOK
<1>3. PICK got \in Result : got = flight[c].got
  BY <1>2 DEF Flight
<1>4. PICK callers \in SUBSET Job : callers = Waiters(c)
  BY DEF Waiters
<1>5. Finish(c, f, got, callers)
  BY <1>2, <1>3, <1>4 DEF Settle
<1>6. f.by \in Job => f.by \in callers
  <2>1. f.by \in Job => job[f.by].conn = c /\ job[f.by].pc = "waiting"
    BY <1>1, <1>2 DEF Control, StarterStays, OwnRefresh
  <2> QED
    BY <1>4, <2>1 DEF Waiters
<1>7. /\ flight'[c] = NoFlight /\ mishap' = mishap
      /\ Persists(c, f, got) => row'[c].tok = got.tok /\ row'[c].fresh
      /\ ~Persists(c, f, got) => row' = row
  BY <1>5, FinishRow
<1>8. Told(c, f, got) = got
  BY <1>7 DEF Told
<1>9. ASSUME NEW i \in Job
      PROVE  /\ i \notin callers => job'[i] = job[i]
             /\ job'[i].conn = job[i].conn /\ job'[i].kind = job[i].kind
             /\ i \in callers => /\ job'[i].pc = "answered"
                                 /\ job'[i].got = Seen(c, job[i].kind, got)
                                 /\ job[i].pc = "waiting" /\ ~Bypasses(i) /\ ~Bypasses(i)'
  <2>1. TypeOK
    BY DEF Control
  <2>2. /\ job'[i].conn = job[i].conn /\ job'[i].kind = job[i].kind
        /\ job'[i].pc = IF i \in callers THEN "answered" ELSE job[i].pc
        /\ job'[i].got = IF i \in callers THEN Seen(c, job[i].kind, Told(c, f, got))
                         ELSE job[i].got
        /\ i # f.by /\ i \notin callers => job'[i] = job[i]
    BY <1>5, <2>1, FinishJobs
  <2>3. i \in callers => job[i].pc = "waiting" /\ ~Bypasses(i)
    BY <1>4 DEF Waiters, Control, Bypassing
  <2> QED
    BY <1>6, <1>8, <2>2, <2>3 DEF Bypasses
<1>10. \A i \in Job : /\ At(i, c)' <=> At(i, c)
                      /\ Carrier(i)' <=> Carrier(i)
                      /\ i \in callers => ~Presents(i)'
                      /\ i \notin callers => (Presents(i)' <=> Presents(i))
                                             /\ (Bypasses(i)' <=> Bypasses(i))
  BY <1>9 DEF At, Carrier, Presents, Bypasses
<1>11. ~Rotating(c)' /\ flight'[c].pc = "none"
  BY <1>7 DEF Rotating, NoFlight
<1>12. CASE got.is # "ok"
  <2>1. ~Rotating(c) /\ row' = row /\ rotated'[c] = rotated[c]
    BY <1>1, <1>3, <1>7, <1>12 DEF Rotating, Persists
  <2>2. \A i \in Job : job'[i] = job[i] \/ Fits(c, i)
    <3>1. \A k : Seen(c, k, got).is # "ok"
      BY <1>12 DEF Seen, Null
    <3> QED
      BY <1>9, <1>10, <3>1 DEF Fits, Carrier
  <2> QED
    BY <1>1, <1>10, <1>11, <2>1, <2>2, PassedSame
<1>13. CASE got.is = "ok"
  <2>1. /\ Rotating(c) /\ Ahead(c) /\ got.tok = newest[c] /\ newest[c] = flight[c].tok + 1
        /\ \A i \in Job : At(i, c) => ~Carrier(i)
    BY <1>1, <1>3, <1>13 DEF Rotating, Ahead, Passed, FlightPassed
  <2>2. Persists(c, f, got)
    BY <1>1, <1>2, <1>13 DEF Persists, GuardSkips, OwnRefresh
  <2>3. row'[c].tok = newest[c] /\ row'[c].fresh
    BY <1>7, <2>1, <2>2
  <2>4. ~Ahead(c)'
    BY <1>10, <1>11, <2>1 DEF Ahead
  <2>5. \A t \in rotated'[c] : newest[c] = t + 1
    BY <1>1, <2>1 DEF Passed, RowPassed
  <2>6. /\ RowPassed(c)'
        /\ \A t \in Nat : Useful(c, t) => Useful(c, t)'
    BY <1>1, <2>1, <2>3, <2>4, <2>5, PassedWritten
  <2>7. FlightPassed(c)'
    BY <1>11 DEF FlightPassed
  <2>8. ASSUME NEW i \in Job, At(i, c)'
        PROVE  JobPassed(c, i)'
    <3>1. At(i, c) /\ JobPassed(c, i) /\ job[i].tok \in Nat /\ ~Carrier(i)'
      BY <1>10, <2>1, <2>8 DEF Passed, Control, TypeOK, JobState
    <3>2. CASE i \in callers
      <4>1. job'[i].got = got
        BY <1>9, <1>13, <3>2 DEF Seen, Dead
      <4> QED
        BY <1>1, <1>10, <2>1, <2>3, <3>1, <3>2, <4>1 DEF JobPassed
    <3>3. CASE i \notin callers
      <4>1. job'[i] = job[i]
        BY <1>9, <3>3
      <4>2. Presents(i)' => Useful(c, job[i].tok)'
        BY <1>10, <2>6, <3>1, <3>3, <4>1 DEF JobPassed, Useful
      <4>3. job[i].pc = "answered" /\ ~Bypasses(i) /\ job[i].got.is = "ok" =>
               job[i].got.tok = newest[c]
        BY <3>1 DEF JobPassed
      <4> QED
        BY <1>1, <1>10, <2>3, <3>1, <3>3, <4>1, <4>2, <4>3 DEF JobPassed
    <3> QED
      BY <3>2, <3>3
  <2> QED
    BY <2>6, <2>7, <2>8 DEF Passed
<1> QED
  BY <1>12, <1>13

\* An access token expires when its row is up to date.
LEMMA PassedAge ==
  ASSUME Control, NEW c \in Conn, Passed(c), Age(c)
  PROVE  Passed(c)'
<1>1. /\ UNCHANGED <<newest, rotated, flight, stray, job>> /\ Quiet
      /\ row[c].fresh /\ rotated[c] = {}
      /\ row'[c].tok = row[c].tok /\ row'[c].fresh = FALSE
  BY DEF Age, upstream, memory, Control, TypeOK, Row
<1>2. ~Ahead(c) /\ row[c].tok = newest[c]
  BY <1>1 DEF Passed, RowPassed
<1>3. /\ Rotating(c)' <=> Rotating(c)
      /\ \A i \in Job : /\ At(i, c)' <=> At(i, c)
                        /\ Carrier(i)' <=> Carrier(i)
                        /\ Presents(i)' <=> Presents(i)
  BY <1>1 DEF Rotating, At, Carrier, Presents, Bypasses
<1>4. ~Ahead(c)'
  BY <1>2, <1>3 DEF Ahead
<1>5. RowPassed(c)'
  BY <1>1, <1>2, <1>4 DEF Passed, RowPassed
<1>6. FlightPassed(c)'
  BY <1>1, <1>3, <1>4 DEF Passed, FlightPassed, Useful, OwnRefresh
<1>7. ASSUME NEW i \in Job, At(i, c)'
      PROVE  JobPassed(c, i)'
  <2>1. JobPassed(c, i) /\ job'[i] = job[i] /\ job[i].pc # "answered"
    BY <1>1, <1>3, <1>7 DEF Passed, Quiet
  <2>2. ~Carrier(i)'
    BY <1>3, <1>4, <1>7 DEF Ahead
  <2>3. Presents(i)' => Useful(c, job[i].tok)'
    BY <1>1, <1>3, <1>4, <2>1 DEF JobPassed, Useful
  <2> QED
    BY <2>1, <2>2, <2>3 DEF JobPassed
<1> QED
  BY <1>5, <1>6, <1>7 DEF Passed

LEMMA PassedExpires ==
  ASSUME Control, NEW c \in Conn, NEW t \in rotated[c], Passed(c), RotationExpires(c, t)
  PROVE  Passed(c)'
<1>1. /\ UNCHANGED <<newest, row, flight, stray, job>>
      /\ rotated'[c] \subseteq rotated[c]
  BY DEF RotationExpires, upstream, Control, TypeOK
<1>2. /\ Rotating(c)' <=> Rotating(c)
      /\ \A i \in Job : /\ At(i, c)' <=> At(i, c)
                        /\ Carrier(i)' <=> Carrier(i)
                        /\ Presents(i)' <=> Presents(i)
                        /\ Bypasses(i)' <=> Bypasses(i)
  BY <1>1 DEF Rotating, At, Carrier, Presents, Bypasses
<1>3. Ahead(c)' <=> Ahead(c)
  BY <1>2 DEF Ahead
<1>4. RowPassed(c)'
  BY <1>1, <1>3 DEF Passed, RowPassed
<1>5. FlightPassed(c)'
  BY <1>1, <1>2, <1>3 DEF Passed, FlightPassed, Useful, OwnRefresh
<1>6. ASSUME NEW i \in Job, At(i, c)'
      PROVE  JobPassed(c, i)'
  BY <1>1, <1>2, <1>3, <1>6 DEF Passed, JobPassed, Useful
<1> QED
  BY <1>4, <1>5, <1>6 DEF Passed

(***************************************************************************)
(* The invariant, and what follows.                                        *)
(***************************************************************************)

LEMMA PassedElsewhere ==
  ASSUME Control, NEW c \in Conn, NEW e, c # e, Local(e), Passed(c)
  PROVE  Passed(c)'
<1>1. \A i \in Job : At(i, c) \/ At(i, c)' => job'[i] = job[i]
  BY DEF Local, Only, At
<1> QED
  BY <1>1, PassedFrame DEF Local

LEMMA CallerPassed ==
  ASSUME Control, NEW c \in Direct, NEW j \in Job, CallerStep(j) \/ TimeOut(j),
         Passed(c), Spared(c)
  PROVE  Passed(c)'
<1>0. c \in Conn
  BY TokenRefreshAssumption
<1>1. CASE job[j].conn # c
  <2>1. Local(job[j].conn)
    BY UsageTurnSound, JoinFlightSound, RotationHitSound, UseRowSound,
       EnqueueSound, TakeTokensSound, ReactiveGivesUpSound, SweepGivesUpSound,
       ReactiveRetriesSound, GoOnSound, UsageAnsweredSound, UsageLeavesSound,
       DirectCallSound, DirectAnswerSound, TimeOutSound DEF CallerStep
  <2> QED
    BY <1>0, <1>1, <2>1, PassedElsewhere
<1>2. CASE job[j].conn = c
  <2>1. ~TimeOut(j)
    BY <1>0, <1>2 DEF TimeOut, Spared, Mishap, MayHappen, Control, TypeOK
  <2> QED
    BY <1>0, <1>2, <2>1, PassedGoesOn, PassedFromMemory, PassedEnqueue, PassedTakeTokens,
       PassedGivesUp, PassedRetries, PassedUsageLeaves, PassedDirectAnswer DEF CallerStep
<1> QED
  BY <1>1, <1>2

LEMMA FlightPasses ==
  ASSUME Control, NEW c \in Direct, NEW d \in Conn, Passed(c), Spared(c),
         \/ FlightStep(d) \/ Age(d)
         \/ \E t \in rotated[d] : RotationExpires(d, t)
         \/ \E t \in stray[d] : StrayAnswer(d, t)
  PROVE  Passed(c)'
<1>0. c \in Conn
  BY TokenRefreshAssumption
<1>1. CASE d # c
  <2>1. Local(d)
    BY TurnSound, UpstreamSound, SettleSound, AgeSound, RotationExpiresSound,
       StrayAnswerSound DEF FlightStep
  <2> QED
    BY <1>0, <1>1, <2>1, PassedElsewhere
<1>2. CASE d = c
  <2>1. stray[c] = {}
    BY DEF Passed, RowPassed
  <2> QED
    BY <1>0, <1>2, <2>1, PassedTurn, PassedUpstream, PassedSettle, PassedAge, PassedExpires
    DEF FlightStep
<1> QED
  BY <1>1, <1>2

LEMMA NextPassed ==
  ASSUME DirectInv, [Next]_vars
  PROVE  PassedInv'
<1>1. Control /\ Keeps
  BY NextKeeps DEF DirectInv
<1>2. SUFFICES ASSUME NEW c \in Direct, mishap'[c] = {}
               PROVE  Passed(c)'
  BY DEF PassedInv
<1>3. c \in Conn /\ Passed(c) /\ Spared(c)
  <2>1. c \in Conn /\ mishap[c] = {}
    BY <1>1, <1>2, TokenRefreshAssumption DEF Keeps
  <2> QED
    BY <1>2, <2>1 DEF DirectInv, PassedInv, Spared
<1>4. ASSUME NEW j \in Job, NEW d \in Conn, NEW k \in KindsOf[d], Load(j, d, k)
      PROVE  Passed(c)'
  <2>1. k \in AllKinds
    BY TokenRefreshAssumption
  <2>2. CASE d # c
    BY <1>1, <1>3, <1>4, <2>1, <2>2, LoadSound, PassedElsewhere
  <2>3. CASE d = c
    BY <1>1, <1>3, <1>4, <2>1, <2>3, PassedLoad
  <2> QED
    BY <2>2, <2>3
<1>5. ~Crash
  <2>1. Crash => mishap'[c] = mishap[c] \union {"crash"}
    BY <1>3 DEF Crash
  <2> QED
    BY <1>2, <2>1
<1>6. CASE UNCHANGED vars
  <2>1. SameData(c) /\ job' = job
    BY <1>6 DEF vars, upstream, memory, SameData
  <2> QED
    BY <1>1, <1>3, <2>1, PassedFrame
<1> QED
  BY <1>1, <1>3, <1>4, <1>5, <1>6, CallerPassed, FlightPasses DEF Next

LEMMA InitPassed ==
  ASSUME Init
  PROVE  PassedInv
<1> SUFFICES ASSUME NEW c \in Direct
             PROVE  Passed(c)
  BY DEF PassedInv
<1>1. /\ c \in Conn /\ newest[c] = 1 /\ rotated[c] = {} /\ stray[c] = {}
      /\ row[c] = [tok |-> 1, fresh |-> TRUE, active |-> TRUE]
      /\ flight[c] = NoFlight /\ job = [j \in Job |-> Idle]
  BY TokenRefreshAssumption DEF Init
<1>2. ~Ahead(c) /\ ~Rotating(c)
  BY <1>1 DEF Ahead, Rotating, At, Idle, NoFlight
<1> QED
  BY <1>1, <1>2 DEF Passed, RowPassed, FlightPassed, At, Idle, NoFlight

\* As long as nothing goes wrong for a connection that can be bypassed, who has
\* been given a new token is alone in having it and about to write it, and who
\* may still present a token knows an older one.
THEOREM DirectInvariant == Spec => []DirectInv
<1>1. Init => DirectInv
  BY InitControl, InitPassed DEF DirectInv
<1>2. DirectInv /\ [Next]_vars => DirectInv'
  BY NextControl, NextPassed DEF DirectInv
<1> QED
  BY <1>1, <1>2, PTL DEF Spec

\* With nothing in flight for a connection, and nothing gone wrong for it, its
\* row holds the newest token: whoever has to persist it has done so.  The row of
\* a connection of kiro may have lost its token instead.
THEOREM RowIsKeptUp == Spec => []RowKeepsUp
<1>1. ASSUME DirectInv, NEW c \in Direct, AtRest(c), mishap[c] = {}
      PROVE  row[c].tok \in {0, newest[c]}
  <2>1. Passed(c) /\ c \in Conn
    BY <1>1, TokenRefreshAssumption DEF DirectInv, PassedInv
  <2>2. ~Ahead(c)
    BY <1>1 DEF AtRest, Ahead, Rotating, At, Carrier
  <2> QED
    BY <2>1, <2>2 DEF Passed, RowPassed
<1>2. IInv /\ DirectInv => RowKeepsUp
  BY <1>1, RestingRow DEF RowKeepsUp
<1> QED
  BY <1>2, RefreshInvariant, DirectInvariant, PTL
=============================================================================
