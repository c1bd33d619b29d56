---------------------------- MODULE TokenRefresh ----------------------------
(***************************************************************************)
(* OAuth token refresh of OmniRoute for providers whose refresh tokens can *)
(* be used once (open-sse/services/tokenRefresh.ts, refreshSerializer.ts,  *)
(* handlers/chatCore.ts, executors/base.ts, executors/kiro.ts,             *)
(* src/lib/tokenHealthCheck.ts, src/lib/usage/providerLimits.ts,           *)
(* src/sse/services/tokenRefresh.ts).                                      *)
(*                                                                         *)
(* Every refresh hands out a new token and consumes the one presented; who *)
(* presents a consumed token may cost the account its whole token family.  *)
(* Five kinds of callers refresh the same connections.  What keeps them    *)
(* apart is in memory: one refresh per connection that later callers join, *)
(* a lane per group of providers in which network calls take turns, and a  *)
(* map from tokens consumed in the last minute to their successors.        *)
(*                                                                         *)
(* All of that is in getAccessToken.  The executor of kiro does not call   *)
(* it: where a caller refreshes through the executor of such a connection  *)
(* (Direct), its call goes to upstream with nothing in between.            *)
(*                                                                         *)
(* Node runs one callback at a time.  An action is what one callback does  *)
(* up to the next timer or network answer; what only waits for a promise   *)
(* that is resolved already runs before anything else (Quiet).  The model  *)
(* has one process, and one threshold for "about to expire".               *)
(***************************************************************************)
EXTENDS Naturals, Sequences, FiniteSets

CONSTANTS
    Conn,        \* connections: OAuth accounts, rows of provider_connections
    Group,       \* rotation groups
    GroupOf,     \* ROTATION_LOCK_GROUP of a connection's provider
    Masks,       \* connections whose executor answers null for a dead token
    Direct,      \* connections whose executor bypasses getAccessToken (kiro)
    Job,         \* callers that may be active at a time
    KindsOf,     \* the kinds of callers a connection has
    NoJob,       \* no caller
    NoConn,      \* no connection
    MaxTries,    \* attempts of refreshWithRetry (3)
    MaxToken,    \* bound: tokens issued to each connection
    MaxMishaps,  \* bound: kinds of mishaps in one behaviour
    Hazards      \* the mishaps each connection may have, see HazardKinds

HazardKinds == {"lost",     \* the answer that carries the new token gets lost
                "crash",    \* the process dies, and its memory with it
                "db",       \* a read or write of the row fails, unnoticed
                "timeout",  \* a caller stops waiting, the refresh goes on
                "odd401",   \* 401 or 403 although the access token is fresh
                "blip"}     \* a good refresh token is refused for no reason

AllKinds == {"reactive",    \* chatCore after a 401 or 403
             "proactive",   \* base executor before a request
             "check",       \* checkAndRefreshToken, when a request is routed
             "sweep",       \* the health check, one connection at a time
             "usage"}       \* the quota page

ASSUME TokenRefreshAssumption ==
    /\ GroupOf \in [Conn -> Group]
    /\ Masks \subseteq Conn
    /\ Direct \subseteq Conn
    /\ KindsOf \in [Conn -> SUBSET AllKinds]
    /\ \A c \in Direct : "proactive" \notin KindsOf[c]
    /\ Conn \cap Job = {}
    /\ NoJob \notin Job
    /\ NoConn \notin Conn
    /\ MaxTries \in Nat \ {0}
    /\ MaxToken \in [Conn -> Nat]
    /\ MaxMishaps \in Nat
    /\ Hazards \in [Conn -> SUBSET HazardKinds]

VARIABLES
    newest,   \* upstream: number of the token it would accept
    alive,    \* upstream: the token family is not revoked
    row,      \* provider_connections: refresh token, access token, isActive
    rotated,  \* tokenRotationMap: consumed tokens, n stands for n to n + 1
    flight,   \* connectionRefreshMutex: the refresh of a connection under way
    lane,     \* groupTail: who waits in a group's lane, its holder first
    stray,    \* tokens in direct calls nobody waits for any more
    job,      \* the callers
    mishap    \* history: what has gone wrong for a connection

\* Tokens of a connection are numbered; 0 stands for null.
upstream == <<newest, alive>>
memory   == <<rotated, flight, lane, stray>>
vars     == <<upstream, row, memory, job, mishap>>

Token  == Nat \ {0}
Row    == [tok : Nat, fresh : BOOLEAN, active : BOOLEAN]

\* What getAccessToken returns: tokens, the unrecoverable error, or null.
Result == [is : {"ok", "dead", "null"}, tok : Nat]
Null   == [is |-> "null", tok |-> 0]
Dead   == [is |-> "dead", tok |-> 0]
Ok(t)  == [is |-> "ok", tok |-> t]

\* tok is presented to upstream, want is what the guard expects in the row
\* (0 without a guard), by is the caller whose code persists the result.
Flight == [pc : {"none", "queued", "posting", "settling"}, tok : Nat,
           want : Nat, kind : AllKinds, by : Job \union {NoJob},
           got : Result]
NoFlight == [pc |-> "none", tok |-> 0, want |-> 0, kind |-> "sweep",
             by |-> NoJob, got |-> Null]

\* tok is credentials.refreshToken, first the one the caller was loaded with
\* (attemptedRefreshToken), ran whether its own persist callback has run.
Steps == {"idle", "outer", "ready", "waiting", "calling", "answered", "leaving"}
JobState == [pc : Steps, conn : Conn \union {NoConn}, kind : AllKinds,
             tok : Nat, first : Nat,
             tries : 0 .. (MaxTries - 1), ran : BOOLEAN, got : Result]
Idle == [pc |-> "idle", conn |-> NoConn, kind |-> "sweep", tok |-> 0,
         first |-> 0, tries |-> 0, ran |-> FALSE, got |-> Null]

Init ==
    /\ newest = [c \in Conn |-> 1]
    /\ alive = [c \in Conn |-> TRUE]
    /\ row = [c \in Conn |-> [tok |-> 1, fresh |-> TRUE, active |-> TRUE]]
    /\ rotated = [c \in Conn |-> {}]
    /\ flight = [c \in Conn |-> NoFlight]
    /\ lane = [g \in Group |-> <<>>]
    /\ stray = [c \in Conn |-> {}]
    /\ job = [j \in Job |-> Idle]
    /\ mishap = [c \in Conn |-> {}]

\* A mishap of kind k may happen to connection c, once.
MayHappen(c, k) ==
    /\ k \in Hazards[c] \ mishap[c]
    /\ Cardinality({k} \union UNION {mishap[d] : d \in Conn}) <= MaxMishaps

Mishap(c, k) ==
    /\ MayHappen(c, k)
    /\ mishap' = [mishap EXCEPT ![c] = @ \union {k}]

\* It is the turn of x, a connection's refresh or a caller, in group g's lane.
Holds(g, x) == lane[g] # <<>> /\ Head(lane[g]) = x

\* The settle gap is paid only when somebody waits behind.
HasSuccessor(g) == Len(lane[g]) > 1

\* Nothing is left to do without waiting for the network or a timer.
Quiet ==
    /\ \A j \in Job : job[j].pc # "answered"
    /\ \A c \in Conn : flight[c].pc = "settling" => HasSuccessor(GroupOf[c])
    /\ \A j \in Job : job[j].pc = "leaving" => HasSuccessor(GroupOf[job[j].conn])

(***************************************************************************)
(* Callers.                                                                *)
(***************************************************************************)

\* A caller of kind k reads connection c.  Chat requests and the health check
\* pass over inactive connections, the sweep visits one at a time, and only
\* who is refused by upstream refreshes a token that is not about to expire.
Load(j, c, k) ==
    /\ Quiet
    /\ job[j].pc = "idle"
    /\ row[c].tok # 0
    /\ k # "usage" => row[c].active
    /\ k = "sweep" => \A i \in Job : job[i].pc = "idle" \/ job[i].kind # "sweep"
    /\ \/ ~row[c].fresh /\ UNCHANGED mishap
       \/ row[c].fresh /\ k \in {"reactive", "usage"} /\ Mishap(c, "odd401")
    /\ job' = [job EXCEPT ![j] = [Idle EXCEPT
                  !.pc = IF k = "usage" THEN "outer" ELSE "ready",
                  !.conn = c, !.kind = k, !.tok = row[c].tok, !.first = row[c].tok]]
    /\ lane' = IF k = "usage" THEN [lane EXCEPT ![GroupOf[c]] = Append(@, j)] ELSE lane
    /\ UNCHANGED <<upstream, row, rotated, flight, stray>>

\* The quota page wraps its refresh in a turn of its own.
UsageTurn(j) ==
    /\ Quiet
    /\ job[j].pc = "outer"
    /\ Holds(GroupOf[job[j].conn], j)
    /\ job' = [job EXCEPT ![j].pc = "ready"]
    /\ UNCHANGED <<upstream, row, memory, mishap>>

\* The caller refreshes through the executor, and that does not call
\* getAccessToken.
Bypasses(j) == job[j].conn \in Direct /\ job[j].kind \in {"reactive", "usage"}

\* getAccessToken: somebody is at it already.
JoinFlight(j) ==
    /\ Quiet
    /\ job[j].pc = "ready"
    /\ ~Bypasses(j)
    /\ flight[job[j].conn].pc # "none"
    /\ job' = [job EXCEPT ![j].pc = "waiting"]
    /\ UNCHANGED <<upstream, row, memory, mishap>>

(***************************************************************************)
(* The refresh of a connection.                                            *)
(***************************************************************************)

\* casGuardShouldSkipPersist: the row holds neither what the caller was loaded
\* with nor nothing.
GuardSkips(c, f) == f.want # 0 /\ row[c].tok \notin {0, f.want}

\* What a caller of kind k sees of an answer.  The health check and the check
\* of a routed request call getAccessToken past the executor.
Seen(c, k, got) ==
    IF got = Dead /\ c \in Masks /\ k \notin {"sweep", "check"} THEN Null ELSE got

\* updateProviderConnection; an error is logged, or ends a caller that is
\* through anyway.
Write(c, r) ==
    \/ row' = [row EXCEPT ![c] = r] /\ UNCHANGED mishap
    \/ UNCHANGED row /\ Mishap(c, "db")

Stored(c, t) == [row[c] EXCEPT !.tok = t, !.fresh = TRUE]

\* Refresh f of connection c comes to its end with got: its starter's callback
\* persists new tokens, and everybody in callers learns the answer.  The
\* callback of the sweep passes a failed write on to all of them.
Finish(c, f, got, callers) ==
    LET persists == got.is = "ok" /\ f.kind # "usage" /\ ~GuardSkips(c, f) IN
    /\ IF persists THEN Write(c, Stored(c, got.tok)) ELSE UNCHANGED <<row, mishap>>
    /\ LET told == IF persists /\ f.kind = "sweep" /\ mishap' # mishap
                   THEN Null ELSE got
           Ran(j) == IF persists /\ j = f.by
                     THEN [job[j] EXCEPT !.ran = TRUE, !.tok = got.tok] ELSE job[j]
       IN job' = [j \in Job |->
             IF j \in callers
             THEN [Ran(j) EXCEPT !.pc = "answered", !.got = Seen(c, job[j].kind, told)]
             ELSE Ran(j)]
    /\ flight' = [flight EXCEPT ![c] = NoFlight]

\* Callers other than j that share the refresh of connection c.
Waiters(c) == {j \in Job : job[j].pc = "waiting" /\ job[j].conn = c}

\* The refresh caller j starts.  Only chatCore sets up a guard.
FlightOf(j, t) ==
    [NoFlight EXCEPT !.pc = "queued", !.tok = t, !.kind = job[j].kind, !.by = j,
                     !.want = IF job[j].kind = "reactive" THEN job[j].first ELSE 0]

CanStart(j) ==
    /\ Quiet
    /\ job[j].pc = "ready"
    /\ ~Bypasses(j)
    /\ flight[job[j].conn].pc = "none"

\* The token was consumed within the last minute: its successor is at hand.
RotationHit(j) ==
    LET c == job[j].conn IN
    /\ CanStart(j)
    /\ job[j].tok \in rotated[c]
    /\ Finish(c, FlightOf(j, job[j].tok), Ok(job[j].tok + 1), {j})
    /\ UNCHANGED <<upstream, rotated, lane, stray>>

\* Mutant: the row is not looked at.
NeverNewer(j) == FALSE

\* The row holds another token than the caller.
RowIsNewer(j) == row[job[j].conn].tok \notin {0, job[j].tok}

\* The row holds another token, and its access token will do.
UseRow(j) ==
    LET c == job[j].conn IN
    /\ CanStart(j)
    /\ job[j].tok \notin rotated[c]
    /\ RowIsNewer(j)
    /\ row[c].fresh
    /\ Finish(c, FlightOf(j, job[j].tok), Ok(row[c].tok), {j})
    /\ UNCHANGED <<upstream, rotated, lane, stray>>

\* serializeRefresh: the call to upstream waits for its turn.  It presents the
\* row's token, or the caller's when the row cannot be read.
Enqueue(j) ==
    LET c == job[j].conn IN
    /\ CanStart(j)
    /\ job[j].tok \notin rotated[c]
    /\ \E t \in {job[j].tok, row[c].tok} :
          /\ \/ /\ ~(RowIsNewer(j) /\ row[c].fresh)
                /\ t = IF RowIsNewer(j) THEN row[c].tok ELSE job[j].tok
                /\ UNCHANGED mishap
             \/ RowIsNewer(j) /\ t = job[j].tok /\ Mishap(c, "db")
          /\ flight' = [flight EXCEPT ![c] = FlightOf(j, t)]
          /\ job' = [job EXCEPT ![j].pc = "waiting", ![j].tok = t]
    /\ lane' = [lane EXCEPT ![GroupOf[c]] = Append(@, c)]
    /\ UNCHANGED <<upstream, row, rotated, stray>>

\* Mutant: two calls of one group at a time.
TurnAtOnce(c) ==
    /\ Quiet
    /\ flight[c].pc = "queued"
    /\ flight' = [flight EXCEPT ![c].pc = "posting"]
    /\ UNCHANGED <<upstream, row, rotated, lane, stray, job, mishap>>

Turn(c) ==
    /\ Quiet
    /\ flight[c].pc = "queued"
    /\ Holds(GroupOf[c], c)
    /\ flight' = [flight EXCEPT ![c].pc = "posting"]
    /\ UNCHANGED <<upstream, row, rotated, lane, stray, job, mishap>>

(***************************************************************************)
(* Upstream.  A call that presents token t of connection c gets answer got.*)
(***************************************************************************)

\* The token is good and is replaced; the answer may not arrive.
Accept(c, t, got) ==
    /\ alive[c]
    /\ t = newest[c]
    /\ newest[c] < MaxToken[c]
    /\ newest' = [newest EXCEPT ![c] = @ + 1]
    /\ UNCHANGED alive
    /\ \/ got = Ok(newest[c] + 1) /\ UNCHANGED mishap
       \/ got = Null /\ Mishap(c, "lost")

\* The token is consumed or revoked, and to present a consumed one may cost the
\* account every token it has.  Or it is good and refused all the same: a 401
\* or an invalid_request counts as final whatever the reason was.
Refuse(c, t, got) ==
    /\ got = Dead
    /\ \/ /\ ~alive[c] \/ t # newest[c]
          /\ \E survives \in BOOLEAN : alive' = [alive EXCEPT ![c] = @ /\ survives]
          /\ UNCHANGED mishap
       \/ /\ alive[c] /\ t = newest[c]
          /\ UNCHANGED alive
          /\ Mishap(c, "blip")
    /\ UNCHANGED newest

\* Mutant: every failure counts as the end of the token.
FailForGood(c, t, got) == got = Dead /\ UNCHANGED <<upstream, mishap>>

\* Upstream is unreachable, overloaded or broken.
FailCall(c, t, got) == got = Null /\ UNCHANGED <<upstream, mishap>>

Outcome(c, t, got) == Accept(c, t, got) \/ Refuse(c, t, got) \/ FailCall(c, t, got)

Answers(c) == {Null, Dead, Ok(newest[c] + 1)}

\* The call a connection's refresh has made comes back.
UpstreamStep(c) ==
    /\ Quiet
    /\ flight[c].pc = "posting"
    /\ \E got \in Answers(c) :
          /\ Outcome(c, flight[c].tok, got)
          /\ flight' = [flight EXCEPT ![c].pc = "settling", ![c].got = got]
    /\ UNCHANGED <<row, rotated, lane, stray, job>>

\* A caller goes to upstream by itself, with the token it was loaded with.
DirectCall(j) ==
    /\ Quiet
    /\ job[j].pc = "ready"
    /\ Bypasses(j)
    /\ job' = [job EXCEPT ![j].pc = "calling"]
    /\ UNCHANGED <<upstream, row, memory, mishap>>

DirectAnswer(j) ==
    /\ Quiet
    /\ job[j].pc = "calling"
    /\ \E got \in Answers(job[j].conn) :
          /\ Outcome(job[j].conn, job[j].tok, got)
          /\ job' = [job EXCEPT ![j].pc = "answered", ![j].got = got]
    /\ UNCHANGED <<row, memory>>

\* A direct call whose caller has given up reaches upstream all the same.
StrayAnswer(c, t) ==
    /\ Quiet
    /\ t \in stray[c]
    /\ \E got \in Answers(c) : Outcome(c, t, got)
    /\ stray' = [stray EXCEPT ![c] = @ \ {t}]
    /\ UNCHANGED <<row, rotated, flight, lane, job>>

\* Mutant: a call that failed keeps the lane.
SettleIfOk(c) ==
    LET f == flight[c] IN
    /\ f.pc = "settling"
    /\ HasSuccessor(GroupOf[c]) => Quiet
    /\ lane' = IF f.got.is = "ok" THEN [lane EXCEPT ![GroupOf[c]] = Tail(@)] ELSE lane
    /\ rotated' = [rotated EXCEPT ![c] = IF f.got.is = "ok" THEN @ \union {f.tok} ELSE @]
    /\ Finish(c, f, f.got, Waiters(c))
    /\ UNCHANGED <<upstream, stray>>

\* The lane is released, after the settle gap if somebody waits behind, and
\* the rotation recorded.
Settle(c) ==
    LET f == flight[c] IN
    /\ f.pc = "settling"
    /\ HasSuccessor(GroupOf[c]) => Quiet
    /\ lane' = [lane EXCEPT ![GroupOf[c]] = Tail(@)]
    /\ rotated' = [rotated EXCEPT ![c] = IF f.got.is = "ok" THEN @ \union {f.tok} ELSE @]
    /\ Finish(c, f, f.got, Waiters(c))
    /\ UNCHANGED <<upstream, stray>>

(***************************************************************************)
(* What the callers make of the answer.                                    *)
(***************************************************************************)

Done(j) == job' = [job EXCEPT ![j] = Idle]

\* Mutant: only the callback writes new tokens.
TakeTokensOnly(j) ==
    /\ job[j].pc = "answered"
    /\ job[j].kind \notin {"check", "usage"}
    /\ job[j].got.is = "ok"
    /\ Done(j)
    /\ UNCHANGED <<upstream, memory, row, mishap>>

\* New tokens.  Whoever did not persist them itself, because it joined, because
\* it went to upstream directly, or because the guard kept its callback from
\* running, writes them now.
TakeTokens(j) ==
    LET c == job[j].conn IN
    /\ job[j].pc = "answered"
    /\ job[j].kind \notin {"check", "usage"}
    /\ job[j].got.is = "ok"
    /\ IF job[j].ran THEN UNCHANGED <<row, mishap>>
       ELSE Write(c, Stored(c, job[j].got.tok))
    /\ Done(j)
    /\ UNCHANGED <<upstream, memory>>

\* chatCore deactivates the connection unless the row holds another token than
\* the one the request was loaded with, or if it cannot read the row.
ReactiveGivesUp(j) ==
    LET c == job[j].conn IN
    /\ job[j].pc = "answered"
    /\ job[j].kind = "reactive"
    /\ job[j].got = Dead
    /\ \/ /\ row[c].tok \notin {0, job[j].first}
          /\ UNCHANGED <<row, mishap>>
       \/ /\ row[c].tok \in {0, job[j].first}
          /\ Write(c, [row[c] EXCEPT !.active = FALSE])
       \/ /\ row[c].tok \notin {0, job[j].first}
          /\ row' = [row EXCEPT ![c].active = FALSE]
          /\ Mishap(c, "db")
    /\ Done(j)
    /\ UNCHANGED <<upstream, memory>>

\* The health check deactivates the connection and clears its token, unless
\* the row has changed or the access token still serves.
SweepGivesUp(j) ==
    LET c == job[j].conn IN
    /\ job[j].pc = "answered"
    /\ job[j].kind = "sweep"
    /\ job[j].got = Dead
    /\ IF row[c].tok # job[j].first \/ row[c].fresh THEN UNCHANGED <<row, mishap>>
       ELSE Write(c, [row[c] EXCEPT !.active = FALSE, !.tok = 0])
    /\ Done(j)
    /\ UNCHANGED <<upstream, memory>>

\* Mutant: one attempt too many.
RetryOnceMore(j) ==
    IF job[j].tries < MaxTries
    THEN /\ job' = [job EXCEPT ![j].pc = "ready", ![j].tries = @ + 1]
         /\ UNCHANGED flight
    ELSE /\ Done(j)
         /\ flight' = [c \in Conn |-> IF flight[c].by = j
                                     THEN [flight[c] EXCEPT !.by = NoJob] ELSE flight[c]]

\* A failed attempt of refreshWithRetry.  The refresh it may have started goes
\* on without it.
Retry(j) ==
    IF job[j].tries + 1 < MaxTries
    THEN /\ job' = [job EXCEPT ![j].pc = "ready", ![j].tries = @ + 1]
         /\ UNCHANGED flight
    ELSE /\ Done(j)
         /\ flight' = [c \in Conn |-> IF flight[c].by = j
                                     THEN [flight[c] EXCEPT !.by = NoJob] ELSE flight[c]]

ReactiveRetries(j) ==
    /\ job[j].pc = "answered"
    /\ job[j].kind = "reactive"
    /\ job[j].got = Null
    /\ Retry(j)
    /\ UNCHANGED <<upstream, row, rotated, lane, stray, mishap>>

\* withTimeout: 30 seconds for an attempt.
TimeOut(j) ==
    LET c == job[j].conn IN
    /\ Quiet
    /\ job[j].pc \in {"waiting", "calling"}
    /\ job[j].kind = "reactive"
    /\ Mishap(c, "timeout")
    /\ stray' = IF job[j].pc = "calling"
                THEN [stray EXCEPT ![c] = @ \union {job[j].tok}] ELSE stray
    /\ Retry(j)
    /\ UNCHANGED <<upstream, row, rotated, lane>>

\* The base executor goes on with the old tokens, the sweep tries another day.
\* A routed request goes on with what it is given, or with the old tokens; new
\* ones have been written by whoever started the refresh.
GoOn(j) ==
    /\ job[j].pc = "answered"
    /\ \/ job[j].kind = "proactive" /\ job[j].got.is # "ok"
       \/ job[j].kind = "sweep" /\ job[j].got = Null
       \/ job[j].kind = "check"
    /\ Done(j)
    /\ UNCHANGED <<upstream, row, memory, mishap>>

UsageAnswered(j) ==
    /\ job[j].pc = "answered"
    /\ job[j].kind = "usage"
    /\ job' = [job EXCEPT ![j].pc = "leaving"]
    /\ UNCHANGED <<upstream, row, memory, mishap>>

\* The quota page leaves the lane and writes what it got.
UsageLeaves(j) ==
    LET c == job[j].conn IN
    /\ job[j].pc = "leaving"
    /\ HasSuccessor(GroupOf[c]) => Quiet
    /\ lane' = [lane EXCEPT ![GroupOf[c]] = Tail(@)]
    /\ IF job[j].got.is = "ok" THEN Write(c, Stored(c, job[j].got.tok))
       ELSE UNCHANGED <<row, mishap>>
    /\ Done(j)
    /\ UNCHANGED <<upstream, rotated, flight, stray>>

(***************************************************************************)
(* Time and crashes.                                                       *)
(***************************************************************************)

\* An access token lives longer than an entry of the rotation map.
Age(c) ==
    /\ Quiet
    /\ row[c].fresh
    /\ rotated[c] = {}
    /\ row' = [row EXCEPT ![c].fresh = FALSE]
    /\ UNCHANGED <<upstream, memory, job, mishap>>

\* cleanupRotationMap, 60 seconds after the rotation.
RotationExpires(c, t) ==
    /\ Quiet
    /\ t \in rotated[c]
    /\ rotated' = [rotated EXCEPT ![c] = @ \ {t}]
    /\ UNCHANGED <<upstream, row, flight, lane, stray, job, mishap>>

\* The process is gone with all it had in memory, and starts again.
Crash ==
    /\ \A c \in Conn : MayHappen(c, "crash")
    /\ mishap' = [c \in Conn |-> mishap[c] \union {"crash"}]
    /\ rotated' = [c \in Conn |-> {}]
    /\ flight' = [c \in Conn |-> NoFlight]
    /\ lane' = [g \in Group |-> <<>>]
    /\ stray' = [c \in Conn |-> {}]
    /\ job' = [j \in Job |-> Idle]
    /\ UNCHANGED <<upstream, row>>

CallerStep(j) == \/ UsageTurn(j)
                 \/ JoinFlight(j)
                 \/ RotationHit(j)
                 \/ UseRow(j)
                 \/ Enqueue(j)
                 \/ DirectCall(j)
                 \/ DirectAnswer(j)
                 \/ TakeTokens(j)
                 \/ ReactiveGivesUp(j)
                 \/ SweepGivesUp(j)
                 \/ ReactiveRetries(j)
                 \/ GoOn(j)
                 \/ UsageAnswered(j)
                 \/ UsageLeaves(j)

FlightStep(c) == Turn(c) \/ UpstreamStep(c) \/ Settle(c)

Next == \/ \E j \in Job : CallerStep(j) \/ TimeOut(j)
        \/ \E j \in Job, c \in Conn : \E k \in KindsOf[c] : Load(j, c, k)
        \/ \E c \in Conn : \/ FlightStep(c)
                           \/ Age(c)
                           \/ \E t \in rotated[c] : RotationExpires(c, t)
                           \/ \E t \in stray[c] : StrayAnswer(c, t)
        \/ Crash

Spec == Init /\ [][Next]_vars

\* Promises that are resolved and timers that have run out are served; a call
\* to upstream ends, if only by the timeouts of fetch.  Fairness is strong where
\* Quiet comes in: what is due may have to let other callbacks pass, not for ever.
Fairness == /\ \A j \in Job : SF_vars(CallerStep(j))
            /\ \A c \in Conn : SF_vars(FlightStep(c))

FairSpec == Spec /\ Fairness

(***************************************************************************)
(* Properties.                                                             *)
(***************************************************************************)

TypeOK ==
    /\ newest \in [Conn -> Token]
    /\ alive \in [Conn -> BOOLEAN]
    /\ row \in [Conn -> Row]
    /\ rotated \in [Conn -> SUBSET Nat]
    /\ flight \in [Conn -> Flight]
    /\ lane \in [Group -> Seq(Conn \union Job)]
    /\ stray \in [Conn -> SUBSET Nat]
    /\ job \in [Job -> JobState]
    /\ mishap \in [Conn -> SUBSET HazardKinds]

\* Calls at upstream, or in the settle gap after one: those of refreshes in the
\* lanes, and the direct ones of the quota page, which has its turn by then.
Calls == {c \in Conn : flight[c].pc \in {"posting", "settling"}}
           \union {j \in Job : job[j].pc = "calling" /\ job[j].kind = "usage"}

GroupAt(x) == GroupOf[IF x \in Conn THEN x ELSE job[x].conn]

\* The lane of a rotation group lets one call through at a time: no two of them
\* are ever at upstream, or in the settle gap, together.  serializeRefresh
\* promises it, since upstream may revoke the families of siblings that
\* refresh at once.  Of all refreshes of rotating providers one kind takes no
\* turn, and is not among Calls: kiro's after a 401 or 403.
OnePostPerGroup == \A x, y \in Calls : GroupAt(x) = GroupAt(y) => x = y

\* A token family is revoked only after a mishap of this very connection: no
\* interleaving of callers alone, and no mishap of a sibling, makes
\* getAccessToken present a token that is consumed.  Connections whose executor
\* bypasses it have no such protection: there two requests are enough.
FamilySurvives == \A c \in Conn \ Direct : alive[c] \/ mishap[c] # {}

\* Nobody is about to write the row of connection c.
AtRest(c) ==
    /\ flight[c].pc = "none"
    /\ \A j \in Job : job[j].conn = c => job[j].pc \notin {"calling", "answered", "leaving"}

\* When refreshes are over the row holds the newest token, whoever persisted,
\* joined, was kept from persisting by the guard or bypassed it, unless
\* something went wrong for this connection.  A connection that can be bypassed
\* may end without a token, but never with an old one.
RowKeepsUp ==
    \A c \in Conn : AtRest(c) /\ mishap[c] = {} =>
        row[c].tok = newest[c] \/ (c \in Direct /\ row[c].tok = 0)

\* A connection is deactivated only when its token is of no more use, however
\* its callers overlap and whatever they are told about consumed tokens.
\* Excepted are a good token that upstream refuses for no reason, which this
\* code takes for the end; failing reads and writes of the row; requests that
\* gave up waiting, since a refresh they left behind may not be persisted (see
\* RowKeepsUp); and connections whose executor bypasses getAccessToken.
\* It leans on a bound: a connection meets each kind of mishap once.  Several
\* refusals of a fresh access token within a minute break it (see the README).
LiveAccountsStayActive ==
    [][\A c \in Conn \ Direct : row[c].active /\ ~row'[c].active =>
          \/ ~alive[c] \/ row[c].tok # newest[c]
          \/ mishap'[c] \cap {"db", "timeout", "blip"} # {}]_vars

\* The quota page holds the lane of group g and waits for a refresh that is
\* queued behind it.
Jammed(g) == \E j \in Job : Holds(g, j) /\ job[j].pc = "waiting"

\* A refresh that is under way ends, failed or not, unless the quota page jams
\* its lane (serializeRefresh around getAccessToken, which takes a turn again).
OnlyUsageJams ==
    \A c \in Conn : flight[c].pc # "none" ~> flight[c].pc = "none" \/ Jammed(GroupOf[c])

\* "The queue keeps flowing even after a failed refresh" (refreshSerializer.ts,
\* line 84): a refresh that is under way ends.
QueueFlows == \A c \in Conn : flight[c].pc # "none" ~> flight[c].pc = "none"
=============================================================================
