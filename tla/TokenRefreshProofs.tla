------------------------- MODULE TokenRefreshProofs -------------------------
(***************************************************************************)
(* Proofs about TokenRefresh, for any number of connections, groups and    *)
(* callers: types, one call at a time in each lane, and, for a connection  *)
(* whose refreshes all go through getAccessToken and as long as nothing    *)
(* goes wrong for it, no token is presented twice and the row ends with    *)
(* the newest one.                                                         *)
(***************************************************************************)
EXTENDS TokenRefresh, TLAPS

\* Caller j deals with connection c.
At(j, c) == job[j].pc # "idle" /\ job[j].conn = c

\* A caller at work has a connection.
Attached == \A j \in Job : job[j].pc # "idle" => job[j].conn \in Conn

\* The starter of a refresh is still there and deals with its connection.
StarterStays == \A c \in Conn : flight[c].by \in Job =>
    /\ job[flight[c].by].conn = c
    /\ job[flight[c].by].pc \in {"ready", "waiting"}
    /\ ~Bypasses(flight[c].by)

\* The quota page has had its turn and has not left the lane.
InTurn(j) == \/ job[j].pc = "leaving"
             \/ job[j].kind = "usage" /\ job[j].pc \in {"ready", "waiting", "calling", "answered"}

\* A call at upstream, and a usage refresh since its turn, hold their lane.
LaneHeld ==
    /\ \A c \in Conn : flight[c].pc \in {"posting", "settling"} => Holds(GroupOf[c], c)
    /\ \A j \in Job : InTurn(j) => Holds(GroupOf[job[j].conn], j)

\* Who calls upstream directly, and who has a refresh of its own.
Bypassing ==
    /\ \A j \in Job : /\ job[j].pc = "calling" => Bypasses(j)
                      /\ job[j].pc = "waiting" => ~Bypasses(j)
                      /\ job[j].pc = "leaving" => job[j].kind = "usage"
                      /\ Bypasses(j) => ~job[j].ran
    /\ \A c \in Conn : stray[c] # {} => c \in Direct

\* Who is where: the part of the invariant without tokens.
Control == TypeOK /\ Attached /\ StarterStays /\ LaneHeld /\ Bypassing

\* Somebody has the newest token and is about to write it.
Writer(j) == /\ job[j].pc = "answered"
             /\ job[j].kind \notin {"usage", "check"}
             /\ job[j].got.is = "ok"
             /\ ~job[j].ran

Pending(c) == \E j \in Job : At(j, c) /\ Writer(j)

\* The row lags behind upstream, or a rotation is not in it yet.
Behind(c) == row[c].tok # newest[c] \/ (rotated[c] # {} /\ ~row[c].fresh)

Rotating(c) == flight[c].pc = "settling" /\ flight[c].got.is = "ok"

\* While a refresh is under way the row holds the token it presents, which is
\* the newest until upstream accepts it.
FlightGood(c) ==
    /\ rotated[c] = {}
    /\ row[c].tok = flight[c].tok
    /\ Rotating(c) => flight[c].got.tok = newest[c] /\ newest[c] = flight[c].tok + 1
    /\ ~Rotating(c) => flight[c].tok = newest[c]
    /\ flight[c].got.is # "dead"
    /\ flight[c].want # 0 => flight[c].kind = "reactive"
    /\ flight[c].by \in Job
    /\ job[flight[c].by].pc = "waiting"
    /\ job[flight[c].by].kind = flight[c].kind
    /\ \A j \in Job : At(j, c) => job[j].pc # "answered"

\* A caller knows no token newer than the newest, and is answered with it.
JobGood(c, j) ==
    /\ job[j].tok # 0
    /\ job[j].tok <= newest[c]
    /\ Rotating(c) => job[j].tok # newest[c]
    /\ job[j].pc \in {"outer", "ready"} /\ job[j].tok = newest[c] => rotated[c] = {}
    /\ job[j].pc = "answered" => job[j].got.is # "dead"
    /\ job[j].pc = "answered" /\ job[j].got.is = "null" => rotated[c] = {}
    /\ job[j].pc \in {"answered", "leaving"} /\ job[j].got.is = "ok"
          => job[j].got.tok = newest[c]
    /\ job[j].ran => /\ job[j].pc = "answered"
                     /\ job[j].got.is = "ok"
                     /\ job[j].kind # "usage"
                     /\ ~Behind(c)

Good(c) ==
    /\ alive[c]
    /\ \A t \in rotated[c] : newest[c] = t + 1
    /\ flight[c].pc = "none" /\ Behind(c) => Pending(c)
    /\ flight[c].pc # "none" => FlightGood(c)
    /\ \A j \in Job : At(j, c) => JobGood(c, j)

\* Without a mishap everything about a connection is as it should be, if all its
\* refreshes go through getAccessToken.
Sound == \A c \in Conn \ Direct : mishap[c] = {} => Good(c)

IInv == Control /\ Sound

(***************************************************************************)
(* Types.                                                                  *)
(***************************************************************************)

LEMMA ResultTypes ==
  /\ Null \in Result
  /\ Dead \in Result
  /\ \A t \in Nat : Ok(t) \in Result
BY DEF Null, Dead, Ok, Result

LEMMA StartTypes ==
  /\ NoFlight \in Flight
  /\ Idle \in JobState
BY ResultTypes, TokenRefreshAssumption DEF NoFlight, Idle, Flight, JobState, Steps, AllKinds

LEMMA MishapType ==
  ASSUME TypeOK, NEW c \in Conn, NEW k, Mishap(c, k)
  PROVE  mishap' \in [Conn -> SUBSET HazardKinds]
BY TokenRefreshAssumption, SMTT(20), ZenonT(40) DEF TypeOK, Mishap, MayHappen

LEMMA WriteType ==
  ASSUME TypeOK, NEW c \in Conn, NEW r \in Row, Write(c, r)
  PROVE  row' \in [Conn -> Row] /\ mishap' \in [Conn -> SUBSET HazardKinds]
BY MishapType DEF TypeOK, Write

LEMMA StoredType ==
  ASSUME TypeOK, NEW c \in Conn, NEW t \in Nat
  PROVE  Stored(c, t) \in Row
BY DEF TypeOK, Stored, Row

LEMMA FlightOfType ==
  ASSUME TypeOK, NEW j \in Job, NEW t \in Nat
  PROVE  FlightOf(j, t) \in Flight
BY StartTypes DEF TypeOK, FlightOf, Flight, JobState

LEMMA FinishType ==
  ASSUME TypeOK, NEW c \in Conn, NEW f \in Flight, NEW got \in Result,
         NEW callers \in SUBSET Job, Finish(c, f, got, callers)
  PROVE  /\ row' \in [Conn -> Row]
         /\ mishap' \in [Conn -> SUBSET HazardKinds]
         /\ flight' \in [Conn -> Flight]
         /\ job' \in [Job -> JobState]
<1> DEFINE persists == got.is = "ok" /\ f.kind # "usage" /\ ~GuardSkips(c, f)
           told == IF persists /\ f.kind = "sweep" /\ mishap' # mishap THEN Null ELSE got
           Ran(j) == IF persists /\ j = f.by
                     THEN [job[j] EXCEPT !.ran = TRUE, !.tok = got.tok] ELSE job[j]
<1>1. row' \in [Conn -> Row] /\ mishap' \in [Conn -> SUBSET HazardKinds]
  <2>1. got.tok \in Nat
    BY DEF Result
  <2>2. CASE persists
    BY <2>1, <2>2, WriteType, StoredType DEF Finish
  <2>3. CASE ~persists
    BY <2>3 DEF Finish, TypeOK
  <2> QED
    BY <2>2, <2>3
<1>2. flight' \in [Conn -> Flight]
  BY StartTypes DEF Finish, TypeOK
<1>3. told \in Result
  BY ResultTypes
<1>4. \A j \in Job : Ran(j) \in JobState
  <2>1. \A r \in JobState, t \in Nat : [r EXCEPT !.ran = TRUE, !.tok = t] \in JobState
    BY DEF JobState
  <2>2. got.tok \in Nat /\ \A j \in Job : job[j] \in JobState
    BY DEF Result, TypeOK
  <2> QED
    BY <2>1, <2>2, Zenon
<1>5. \A k : Seen(c, k, told) \in Result
  BY <1>3, ResultTypes DEF Seen
<1>6. job' = [j \in Job |-> IF j \in callers
                 THEN [Ran(j) EXCEPT !.pc = "answered", !.got = Seen(c, job[j].kind, told)]
                 ELSE Ran(j)]
  BY DEF Finish
<1> HIDE DEF persists, told, Ran
<1>7. \A r \in JobState, g \in Result :
        [r EXCEPT !.pc = "answered", !.got = g] \in JobState
  BY DEF JobState, Steps
<1>8. job' \in [Job -> JobState]
  BY <1>4, <1>5, <1>6, <1>7, ZenonT(30)
<1> QED
  BY <1>1, <1>2, <1>8

(***************************************************************************)
(* What the end of a refresh does to the callers.                          *)
(***************************************************************************)

Persists(c, f, got) == got.is = "ok" /\ f.kind # "usage" /\ ~GuardSkips(c, f)

Told(c, f, got) == IF Persists(c, f, got) /\ f.kind = "sweep" /\ mishap' # mishap
                   THEN Null ELSE got

LEMMA FinishJobs ==
  ASSUME TypeOK, NEW c \in Conn, NEW f \in Flight, NEW got \in Result,
         NEW callers \in SUBSET Job, Finish(c, f, got, callers), NEW j \in Job
  PROVE  /\ job'[j].conn = job[j].conn
         /\ job'[j].kind = job[j].kind
         /\ job'[j].pc = IF j \in callers THEN "answered" ELSE job[j].pc
         /\ job'[j].got = IF j \in callers THEN Seen(c, job[j].kind, Told(c, f, got))
                          ELSE job[j].got
         /\ Persists(c, f, got) /\ j = f.by => job'[j].ran /\ job'[j].tok = got.tok
         /\ ~(Persists(c, f, got) /\ j = f.by)
               => (job'[j].ran <=> job[j].ran) /\ job'[j].tok = job[j].tok
         /\ j # f.by /\ j \notin callers => job'[j] = job[j]
<1> DEFINE Ran == IF Persists(c, f, got) /\ j = f.by
                  THEN [job[j] EXCEPT !.ran = TRUE, !.tok = got.tok] ELSE job[j]
<1>1. job'[j] = IF j \in callers
                THEN [Ran EXCEPT !.pc = "answered", !.got = Seen(c, job[j].kind, Told(c, f, got))]
                ELSE Ran
  BY DEF Finish, Persists, Told
<1>2. job[j] \in JobState /\ got.tok \in Nat
  BY DEF TypeOK, Result
<1>3. /\ Ran \in JobState
      /\ Ran.conn = job[j].conn /\ Ran.kind = job[j].kind
      /\ Ran.pc = job[j].pc /\ Ran.got = job[j].got
      /\ IF Persists(c, f, got) /\ j = f.by THEN Ran.ran = TRUE /\ Ran.tok = got.tok
         ELSE Ran.ran = job[j].ran /\ Ran.tok = job[j].tok
      /\ j # f.by => Ran = job[j]
  <2>1. \A r \in JobState, t \in Nat :
           LET x == [r EXCEPT !.ran = TRUE, !.tok = t]
           IN /\ x \in JobState /\ x.conn = r.conn /\ x.kind = r.kind /\ x.pc = r.pc
              /\ x.got = r.got /\ x.ran = TRUE /\ x.tok = t
    BY DEF JobState
  <2> QED
    BY <1>2, <2>1, Zenon
<1> HIDE DEF Ran
<1>4. \A r \in JobState : \A g :
         LET x == [r EXCEPT !.pc = "answered", !.got = g]
         IN /\ x.conn = r.conn /\ x.kind = r.kind /\ x.pc = "answered"
            /\ x.got = g /\ x.ran = r.ran /\ x.tok = r.tok
  BY DEF JobState
<1>5. CASE j \in callers
  <2> DEFINE x == [Ran EXCEPT !.pc = "answered", !.got = Seen(c, job[j].kind, Told(c, f, got))]
  <2>1. job'[j] = x
    BY <1>1, <1>5
  <2>2. /\ x.conn = Ran.conn /\ x.kind = Ran.kind /\ x.pc = "answered"
        /\ x.got = Seen(c, job[j].kind, Told(c, f, got)) /\ x.ran = Ran.ran /\ x.tok = Ran.tok
    BY <1>3, <1>4, Zenon
  <2> HIDE DEF x
  <2> QED
    BY <1>3, <1>5, <2>1, <2>2
<1>6. CASE j \notin callers
  BY <1>1, <1>3, <1>6
<1> QED
  BY <1>5, <1>6

LEMMA FinishMoves ==
  ASSUME TypeOK, NEW c \in Conn, NEW f \in Flight, NEW got \in Result,
         NEW callers \in SUBSET Job, Finish(c, f, got, callers)
  PROVE  \A i \in Job : /\ i # f.by /\ i \notin callers => job'[i] = job[i]
                        /\ job'[i].conn = job[i].conn
                        /\ job'[i].kind = job[i].kind
                        /\ job'[i].pc = IF i \in callers THEN "answered" ELSE job[i].pc
<1> TAKE i \in Job
<1>1. /\ i # f.by /\ i \notin callers => job'[i] = job[i]
      /\ job'[i].conn = job[i].conn
      /\ job'[i].kind = job[i].kind
      /\ job'[i].pc = IF i \in callers THEN "answered" ELSE job[i].pc
  BY FinishJobs
<1> QED
  BY <1>1

(***************************************************************************)
(* The steps keep Control.                                                 *)
(***************************************************************************)


LEMMA UsageTurnControl ==
  ASSUME Control, NEW j \in Job, UsageTurn(j)
  PROVE  Control'
<1>1. TypeOK'
  BY SMTT(20), ZenonT(40) DEF Control, TypeOK, JobState, Steps, upstream, memory, UsageTurn
<1>2. Attached'
  BY DEF Control, TypeOK, Attached, UsageTurn, memory
<1>3. StarterStays'
  BY DEF Control, TypeOK, StarterStays, Bypasses, UsageTurn, memory
<1>4. LaneHeld'
  BY DEF Control, TypeOK, LaneHeld, InTurn, Holds, UsageTurn, memory
<1>5. Bypassing'
  BY TokenRefreshAssumption DEF Control, TypeOK, Bypassing, Bypasses, memory, UsageTurn
<1> QED
  BY <1>1, <1>2, <1>3, <1>4, <1>5 DEF Control

LEMMA JoinFlightControl ==
  ASSUME Control, NEW j \in Job, JoinFlight(j)
  PROVE  Control'
<1>1. TypeOK'
  <2>1. [job[j] EXCEPT !.pc = "waiting"] \in JobState
    BY DEF Control, TypeOK, JobState, Steps
  <2> QED
    BY <2>1 DEF Control, TypeOK, upstream, memory, JoinFlight
<1>2. Attached'
  BY DEF Control, TypeOK, Attached, JoinFlight, memory
<1>3. StarterStays'
  BY DEF Control, TypeOK, StarterStays, Bypasses, JoinFlight, memory
<1>4. LaneHeld'
  BY DEF Control, TypeOK, LaneHeld, InTurn, Holds, JoinFlight, memory
<1>5. Bypassing'
  BY TokenRefreshAssumption DEF Control, TypeOK, Bypassing, Bypasses, memory, JoinFlight
<1> QED
  BY <1>1, <1>2, <1>3, <1>4, <1>5 DEF Control

LEMMA TurnControl ==
  ASSUME Control, NEW c \in Conn, Turn(c)
  PROVE  Control'
<1>1. TypeOK'
  BY DEF Control, TypeOK, Flight, upstream, Turn
<1>2. Attached'
  BY DEF Control, TypeOK, Attached, Turn, Flight
<1>3. StarterStays'
  BY DEF Control, TypeOK, StarterStays, Bypasses, Turn, Flight
<1>4. LaneHeld'
  BY DEF Control, TypeOK, LaneHeld, InTurn, Holds, Turn, Flight
<1>5. Bypassing'
  BY TokenRefreshAssumption DEF Control, TypeOK, Bypassing, Bypasses, memory, Turn
<1> QED
  BY <1>1, <1>2, <1>3, <1>4, <1>5 DEF Control

LEMMA UsageAnsweredControl ==
  ASSUME Control, NEW j \in Job, UsageAnswered(j)
  PROVE  Control'
<1>1. TypeOK'
  BY SMTT(20), ZenonT(40) DEF Control, TypeOK, JobState, Steps, upstream, memory, UsageAnswered
<1>2. Attached'
  BY DEF Control, TypeOK, Attached, UsageAnswered, memory
<1>3. StarterStays'
  BY DEF Control, TypeOK, StarterStays, Bypasses, UsageAnswered, memory
<1>4. LaneHeld'
  BY DEF Control, TypeOK, LaneHeld, InTurn, Holds, UsageAnswered, memory
<1>5. Bypassing'
  BY TokenRefreshAssumption DEF Control, TypeOK, Bypassing, Bypasses, memory, UsageAnswered
<1> QED
  BY <1>1, <1>2, <1>3, <1>4, <1>5 DEF Control

LEMMA TakeTokensControl ==
  ASSUME Control, NEW j \in Job, TakeTokens(j)
  PROVE  Control'
<1>1. TypeOK'
  BY StartTypes, WriteType, StoredType DEF Control, TypeOK, Attached, Done, upstream, memory, Row, JobState, Result, TakeTokens
<1>2. Attached'
  BY TokenRefreshAssumption DEF Control, TypeOK, Attached, Idle, Done, memory, TakeTokens
<1>3. StarterStays'
  BY TokenRefreshAssumption DEF Control, TypeOK, StarterStays, Bypasses, Idle, Done, memory, TakeTokens
<1>4. LaneHeld'
  BY TokenRefreshAssumption DEF Control, TypeOK, LaneHeld, InTurn, Holds, Idle, Done, memory, TakeTokens
<1>5. Bypassing'
  BY TokenRefreshAssumption DEF Control, TypeOK, Bypassing, Bypasses, Idle, Done, memory, TakeTokens
<1> QED
  BY <1>1, <1>2, <1>3, <1>4, <1>5 DEF Control

LEMMA ReactiveGivesUpControl ==
  ASSUME Control, NEW j \in Job, ReactiveGivesUp(j)
  PROVE  Control'
<1>1. TypeOK'
  <2> DEFINE c == job[j].conn
  <2>1. c \in Conn
    BY DEF Control, Attached, ReactiveGivesUp
  <2>2. [row[c] EXCEPT !.active = FALSE] \in Row
    BY <2>1, SMTT(20), ZenonT(40) DEF Control, TypeOK, Row
  <2>3. row' \in [Conn -> Row] /\ mishap' \in [Conn -> SUBSET HazardKinds]
    <3>1. \/ UNCHANGED <<row, mishap>>
          \/ Write(c, [row[c] EXCEPT !.active = FALSE])
          \/ row' = [row EXCEPT ![c] = [row[c] EXCEPT !.active = FALSE]] /\ Mishap(c, "db")
      BY DEF ReactiveGivesUp
    <3> QED
      BY <2>1, <2>2, <3>1, WriteType, MishapType DEF Control, TypeOK
  <2>4. job' \in [Job -> JobState]
    BY StartTypes DEF Control, TypeOK, Done, ReactiveGivesUp
  <2> QED
    BY <2>3, <2>4 DEF Control, TypeOK, upstream, memory, ReactiveGivesUp
<1>2. Attached'
  BY TokenRefreshAssumption DEF Control, TypeOK, Attached, Idle, Done, memory, ReactiveGivesUp
<1>3. StarterStays'
  BY TokenRefreshAssumption DEF Control, TypeOK, StarterStays, Bypasses, Idle, Done, memory, ReactiveGivesUp
<1>4. LaneHeld'
  BY TokenRefreshAssumption DEF Control, TypeOK, LaneHeld, InTurn, Holds, Idle, Done, memory, ReactiveGivesUp
<1>5. Bypassing'
  BY TokenRefreshAssumption DEF Control, TypeOK, Bypassing, Bypasses, Idle, Done, memory, ReactiveGivesUp
<1> QED
  BY <1>1, <1>2, <1>3, <1>4, <1>5 DEF Control

LEMMA SweepGivesUpControl ==
  ASSUME Control, NEW j \in Job, SweepGivesUp(j)
  PROVE  Control'
<1>1. TypeOK'
  <2> DEFINE c == job[j].conn
  <2>1. c \in Conn
    BY DEF Control, Attached, SweepGivesUp
  <2>2. [row[c] EXCEPT !.active = FALSE, !.tok = 0] \in Row
    BY <2>1, SMTT(20), ZenonT(40) DEF Control, TypeOK, Row
  <2>3. row' \in [Conn -> Row] /\ mishap' \in [Conn -> SUBSET HazardKinds]
    BY <2>1, <2>2, WriteType DEF Control, TypeOK, SweepGivesUp
  <2>4. job' \in [Job -> JobState]
    BY StartTypes DEF Control, TypeOK, Done, SweepGivesUp
  <2> QED
    BY <2>3, <2>4 DEF Control, TypeOK, upstream, memory, SweepGivesUp
<1>2. Attached'
  BY TokenRefreshAssumption DEF Control, TypeOK, Attached, Idle, Done, memory, SweepGivesUp
<1>3. StarterStays'
  BY TokenRefreshAssumption DEF Control, TypeOK, StarterStays, Bypasses, Idle, Done, memory, SweepGivesUp
<1>4. LaneHeld'
  BY TokenRefreshAssumption DEF Control, TypeOK, LaneHeld, InTurn, Holds, Idle, Done, memory, SweepGivesUp
<1>5. Bypassing'
  BY TokenRefreshAssumption DEF Control, TypeOK, Bypassing, Bypasses, Idle, Done, memory, SweepGivesUp
<1> QED
  BY <1>1, <1>2, <1>3, <1>4, <1>5 DEF Control

LEMMA GoOnControl ==
  ASSUME Control, NEW j \in Job, GoOn(j)
  PROVE  Control'
<1>1. TypeOK'
  BY StartTypes, WriteType, StoredType DEF Control, TypeOK, Attached, Done, upstream, memory, Row, JobState, Result, GoOn
<1>2. Attached'
  BY TokenRefreshAssumption DEF Control, TypeOK, Attached, Idle, Done, memory, GoOn
<1>3. StarterStays'
  BY TokenRefreshAssumption DEF Control, TypeOK, StarterStays, Bypasses, Idle, Done, memory, GoOn
<1>4. LaneHeld'
  BY TokenRefreshAssumption DEF Control, TypeOK, LaneHeld, InTurn, Holds, Idle, Done, memory, GoOn
<1>5. Bypassing'
  BY TokenRefreshAssumption DEF Control, TypeOK, Bypassing, Bypasses, Idle, Done, memory, GoOn
<1> QED
  BY <1>1, <1>2, <1>3, <1>4, <1>5 DEF Control

LEMMA AgeControl ==
  ASSUME Control, NEW c \in Conn, Age(c)
  PROVE  Control'
<1>1. TypeOK'
  BY DEF Control, TypeOK, Row, upstream, memory, Age
<1>2. Attached'
  BY DEF Control, TypeOK, Attached, Age, memory
<1>3. StarterStays'
  BY DEF Control, TypeOK, StarterStays, Bypasses, Age, memory
<1>4. LaneHeld'
  BY DEF Control, TypeOK, LaneHeld, InTurn, Holds, Age, memory
<1>5. Bypassing'
  BY TokenRefreshAssumption DEF Control, TypeOK, Bypassing, Bypasses, memory, Age
<1> QED
  BY <1>1, <1>2, <1>3, <1>4, <1>5 DEF Control

LEMMA RotationExpiresControl ==
  ASSUME Control, NEW c \in Conn, NEW t \in rotated[c], RotationExpires(c, t)
  PROVE  Control'
<1>1. TypeOK'
  BY DEF Control, TypeOK, upstream, RotationExpires
<1>2. Attached'
  BY DEF Control, TypeOK, Attached, RotationExpires
<1>3. StarterStays'
  BY DEF Control, TypeOK, StarterStays, Bypasses, RotationExpires
<1>4. LaneHeld'
  BY DEF Control, TypeOK, LaneHeld, InTurn, Holds, RotationExpires
<1>5. Bypassing'
  BY TokenRefreshAssumption DEF Control, TypeOK, Bypassing, Bypasses, memory, RotationExpires
<1> QED
  BY <1>1, <1>2, <1>3, <1>4, <1>5 DEF Control

LEMMA CrashControl ==
  ASSUME Control, Crash
  PROVE  Control'
<1>1. TypeOK'
  BY StartTypes DEF Control, TypeOK, upstream, Crash, HazardKinds
<1>2. Attached'
  BY TokenRefreshAssumption DEF Control, TypeOK, Attached, Idle, NoFlight, Crash
<1>3. StarterStays'
  BY TokenRefreshAssumption DEF Control, TypeOK, StarterStays, Bypasses, Idle, NoFlight, Crash
<1>4. LaneHeld'
  BY TokenRefreshAssumption DEF Control, TypeOK, LaneHeld, InTurn, Holds, Idle, NoFlight, Crash
<1>5. Bypassing'
  BY TokenRefreshAssumption DEF Control, TypeOK, Bypassing, Bypasses, Idle, NoFlight, memory, Crash
<1> QED
  BY <1>1, <1>2, <1>3, <1>4, <1>5 DEF Control

\* To join the end of a lane changes nobody's turn.
LEMMA LaneAppend ==
  ASSUME TypeOK, NEW g \in Group, NEW x \in Conn \union Job,
         lane' = [lane EXCEPT ![g] = Append(@, x)]
  PROVE  /\ lane' \in [Group -> Seq(Conn \union Job)]
         /\ \A h \in Group, y \in Conn \union Job : Holds(h, y) => Holds(h, y)'
<1>1. lane \in [Group -> Seq(Conn \union Job)]
  BY DEF TypeOK
<1>2. \A s \in Seq(Conn \union Job) :
        /\ Append(s, x) \in Seq(Conn \union Job)
        /\ s # <<>> => Append(s, x) # <<>> /\ Head(Append(s, x)) = Head(s)
  OBVIOUS
<1>3. lane' \in [Group -> Seq(Conn \union Job)]
  BY <1>1, <1>2
<1>4. ASSUME NEW h \in Group, NEW y \in Conn \union Job, Holds(h, y)
      PROVE  Holds(h, y)'
  <2>1. lane'[h] = IF h = g THEN Append(lane[h], x) ELSE lane[h]
    BY <1>1
  <2> QED
    BY <1>1, <1>2, <1>4, <2>1 DEF Holds
<1> QED
  BY <1>3, <1>4

\* To leave a lane changes nobody's turn in the others, and takes it only from
\* whoever had it.
LEMMA LaneTail ==
  ASSUME TypeOK, NEW g \in Group, NEW x \in Conn \union Job, Holds(g, x),
         lane' = [lane EXCEPT ![g] = Tail(@)]
  PROVE  /\ lane' \in [Group -> Seq(Conn \union Job)]
         /\ \A h \in Group, y \in Conn \union Job :
               y # x /\ Holds(h, y) => Holds(h, y)'
<1>1. lane \in [Group -> Seq(Conn \union Job)]
  BY DEF TypeOK
<1>2. lane[g] # <<>> /\ Head(lane[g]) = x
  BY DEF Holds
<1>3. Tail(lane[g]) \in Seq(Conn \union Job)
  BY <1>1, <1>2
<1>4. lane' \in [Group -> Seq(Conn \union Job)]
  BY <1>1, <1>3
<1>5. ASSUME NEW h \in Group, NEW y \in Conn \union Job, y # x, Holds(h, y)
      PROVE  Holds(h, y)'
  <2>1. h # g
    BY <1>2, <1>5 DEF Holds
  <2>2. lane'[h] = lane[h]
    BY <1>1, <2>1
  <2> QED
    BY <1>5, <2>2 DEF Holds
<1> QED
  BY <1>4, <1>5

LEMMA LoadControl ==
  ASSUME Control, NEW j \in Job, NEW c \in Conn, NEW k \in AllKinds, Load(j, c, k)
  PROVE  Control'
<1> DEFINE x == [Idle EXCEPT !.pc = IF k = "usage" THEN "outer" ELSE "ready",
                             !.conn = c, !.kind = k, !.tok = row[c].tok, !.first = row[c].tok]
<1>1. /\ x \in JobState /\ x.conn = c /\ x.kind = k
      /\ x.pc = IF k = "usage" THEN "outer" ELSE "ready"
      /\ x.ran = FALSE
  <2>1. row[c].tok \in Nat
    BY DEF Control, TypeOK, Row
  <2> QED
    BY <2>1, StartTypes DEF Idle, JobState, Steps
<1>2. job' = [job EXCEPT ![j] = x]
  BY DEF Load
<1> HIDE DEF x
<1>3. GroupOf[c] \in Group
  BY TokenRefreshAssumption
<1>4. /\ lane' \in [Group -> Seq(Conn \union Job)]
      /\ \A h \in Group, y \in Conn \union Job : Holds(h, y) => Holds(h, y)'
  <2>1. CASE k = "usage"
    BY <1>3, <2>1, LaneAppend DEF Control, Load
  <2>2. CASE k # "usage"
    BY <2>2 DEF Control, TypeOK, Holds, Load
  <2> QED
    BY <2>1, <2>2
<1>5. mishap' \in [Conn -> SUBSET HazardKinds]
  BY MishapType DEF Control, TypeOK, Load
<1>6. job' \in [Job -> JobState]
  BY <1>1, <1>2 DEF Control, TypeOK
<1>7. job[j].pc = "idle"
  BY DEF Load
<1>8. flight' = flight
  BY DEF Load
<1>9. TypeOK'
  BY <1>4, <1>5, <1>6 DEF Control, TypeOK, Load, upstream
<1>10. Attached'
  BY <1>1, <1>2 DEF Control, TypeOK, Attached
<1>11. StarterStays'
  BY <1>2, <1>7, <1>8 DEF Control, TypeOK, StarterStays, Bypasses
<1>12. LaneHeld'
  <2>1. \A d \in Conn : flight'[d].pc \in {"posting", "settling"} => Holds(GroupOf[d], d)'
    BY <1>4, <1>8, TokenRefreshAssumption DEF Control, LaneHeld, InTurn
  <2>2. ASSUME NEW i \in Job, InTurn(i)'
        PROVE  Holds(GroupOf[job[i].conn], i)'
    <3>1. i # j
      BY <1>1, <1>2, <2>2 DEF Control, TypeOK, InTurn
    <3>2. job'[i] = job[i]
      BY <1>2, <3>1 DEF Control, TypeOK
    <3>3. GroupOf[job[i].conn] \in Group /\ Holds(GroupOf[job[i].conn], i)
      BY <2>2, <3>2, TokenRefreshAssumption DEF Control, LaneHeld, InTurn, Attached
    <3> QED
      BY <1>4, <3>2, <3>3
  <2> QED
    BY <2>1, <2>2 DEF LaneHeld, InTurn
<1>13. Bypassing'
  <2>1. \A i \in Job : job'[i] = IF i = j THEN x ELSE job[i]
    BY <1>2 DEF Control, TypeOK
  <2>2. stray' = stray
    BY DEF Load
  <2>3. ASSUME NEW i \in Job
        PROVE  /\ job'[i].pc = "calling" => Bypasses(i)'
               /\ job'[i].pc = "waiting" => ~Bypasses(i)'
               /\ job'[i].pc = "leaving" => job'[i].kind = "usage"
               /\ Bypasses(i)' => ~job'[i].ran
    <3>1. CASE i = j
      BY <1>1, <2>1, <3>1
    <3>2. CASE i # j
      BY <2>1, <3>2 DEF Control, Bypassing, Bypasses
    <3> QED
      BY <3>1, <3>2
  <2> QED
    BY <2>2, <2>3 DEF Control, Bypassing
<1> QED
  BY <1>9, <1>10, <1>11, <1>12, <1>13 DEF Control

LEMMA RotationHitControl ==
  ASSUME Control, NEW j \in Job, RotationHit(j)
  PROVE  Control'
<1> DEFINE c == job[j].conn
           f == FlightOf(j, job[j].tok)
           got == Ok(job[j].tok + 1)
<1>1. /\ c \in Conn /\ f \in Flight /\ got \in Result
      /\ Finish(c, f, got, {j})
      /\ job[j].pc = "ready" /\ ~Bypasses(j) /\ f.by = j
  <2>1. c \in Conn
    BY DEF Control, Attached, CanStart, RotationHit
  <2>2. job[j].tok \in Nat /\ row[c].tok \in Nat
    BY <2>1 DEF Control, TypeOK, JobState, Row
  <2>3. f.by = j
    BY DEF FlightOf, NoFlight
  <2> QED
    BY <2>1, <2>2, <2>3, FlightOfType, ResultTypes DEF Control, CanStart, RotationHit
<1>2. flight' = [flight EXCEPT ![c] = NoFlight]
  BY <1>1 DEF Finish
<1>3. \A i \in Job : /\ i # j => job'[i] = job[i]
                     /\ job'[i].conn = job[i].conn
                     /\ job'[i].kind = job[i].kind
                     /\ job'[i].pc = IF i = j THEN "answered" ELSE job[i].pc
  <2> HIDE DEF c, f, got
  <2>1. TypeOK
    BY DEF Control
  <2>2. {j} \in SUBSET Job
    OBVIOUS
  <2>3. \A i \in Job : /\ i # f.by /\ i \notin {j} => job'[i] = job[i]
                       /\ job'[i].conn = job[i].conn
                       /\ job'[i].kind = job[i].kind
                       /\ job'[i].pc = IF i \in {j} THEN "answered" ELSE job[i].pc
    BY <1>1, <2>1, <2>2, FinishMoves
  <2> QED
    BY <1>1, <2>3
<1>4. TypeOK'
  <2>1. UNCHANGED <<upstream, rotated, lane, stray>>
    BY DEF RotationHit
  <2>2. /\ row' \in [Conn -> Row] /\ mishap' \in [Conn -> SUBSET HazardKinds]
        /\ flight' \in [Conn -> Flight] /\ job' \in [Job -> JobState]
    <3> HIDE DEF c, f, got
    <3> QED
      BY <1>1, FinishType DEF Control
  <2> QED
    BY <2>1, <2>2 DEF Control, TypeOK, upstream
<1>5. Attached'
  BY <1>3, <1>1 DEF Control, Attached
<1>6. \A i \in Job : Bypasses(i)' <=> Bypasses(i)
  BY <1>3 DEF Bypasses
<1>7. StarterStays'
  <2>1. \A d \in Conn : flight'[d].by = IF d = c THEN NoJob ELSE flight[d].by
    BY <1>2 DEF Control, TypeOK, NoFlight
  <2> HIDE DEF c, f, got
  <2>2. ASSUME NEW d \in Conn, flight'[d].by \in Job
        PROVE  /\ job'[flight'[d].by].conn = d
               /\ job'[flight'[d].by].pc \in {"ready", "waiting"}
               /\ ~Bypasses(flight[d].by)'
    <3>1. d # c /\ flight'[d].by = flight[d].by
      BY <2>1, <2>2, TokenRefreshAssumption
    <3>2. /\ job[flight[d].by].conn = d /\ job[flight[d].by].pc \in {"ready", "waiting"}
          /\ ~Bypasses(flight[d].by)
      BY <2>2, <3>1 DEF Control, StarterStays
    <3>3. flight[d].by # j
      BY <3>1, <3>2 DEF c
    <3> QED
      BY <1>3, <1>6, <2>2, <3>1, <3>2, <3>3
  <2>3. \A d \in Conn : flight'[d].by \in Job => flight'[d].by = flight[d].by
    BY <2>1, TokenRefreshAssumption
  <2> QED
    BY <2>2, <2>3 DEF StarterStays
<1>8. LaneHeld'
  BY <1>1, <1>2, <1>3, SMTT(20), ZenonT(40) DEF Control, TypeOK, LaneHeld, InTurn, Holds, NoFlight, RotationHit
<1>9. Bypassing'
  <2>1. stray' = stray
    BY DEF RotationHit
  <2> QED
    BY <1>1, <1>3, <1>6, <2>1 DEF Control, Bypassing
<1> QED
  BY <1>4, <1>5, <1>7, <1>8, <1>9 DEF Control

LEMMA UseRowControl ==
  ASSUME Control, NEW j \in Job, UseRow(j)
  PROVE  Control'
<1> DEFINE c == job[j].conn
           f == FlightOf(j, job[j].tok)
           got == Ok(row[job[j].conn].tok)
<1>1. /\ c \in Conn /\ f \in Flight /\ got \in Result
      /\ Finish(c, f, got, {j})
      /\ job[j].pc = "ready" /\ ~Bypasses(j) /\ f.by = j
  <2>1. c \in Conn
    BY DEF Control, Attached, CanStart, UseRow
  <2>2. job[j].tok \in Nat /\ row[c].tok \in Nat
    BY <2>1 DEF Control, TypeOK, JobState, Row
  <2>3. f.by = j
    BY DEF FlightOf, NoFlight
  <2> QED
    BY <2>1, <2>2, <2>3, FlightOfType, ResultTypes DEF Control, CanStart, UseRow
<1>2. flight' = [flight EXCEPT ![c] = NoFlight]
  BY <1>1 DEF Finish
<1>3. \A i \in Job : /\ i # j => job'[i] = job[i]
                     /\ job'[i].conn = job[i].conn
                     /\ job'[i].kind = job[i].kind
                     /\ job'[i].pc = IF i = j THEN "answered" ELSE job[i].pc
  <2> HIDE DEF c, f, got
  <2>1. TypeOK
    BY DEF Control
  <2>2. {j} \in SUBSET Job
    OBVIOUS
  <2>3. \A i \in Job : /\ i # f.by /\ i \notin {j} => job'[i] = job[i]
                       /\ job'[i].conn = job[i].conn
                       /\ job'[i].kind = job[i].kind
                       /\ job'[i].pc = IF i \in {j} THEN "answered" ELSE job[i].pc
    BY <1>1, <2>1, <2>2, FinishMoves
  <2> QED
    BY <1>1, <2>3
<1>4. TypeOK'
  <2>1. UNCHANGED <<upstream, rotated, lane, stray>>
    BY DEF UseRow
  <2>2. /\ row' \in [Conn -> Row] /\ mishap' \in [Conn -> SUBSET HazardKinds]
        /\ flight' \in [Conn -> Flight] /\ job' \in [Job -> JobState]
    <3> HIDE DEF c, f, got
    <3> QED
      BY <1>1, FinishType DEF Control
  <2> QED
    BY <2>1, <2>2 DEF Control, TypeOK, upstream
<1>5. Attached'
  BY <1>3, <1>1 DEF Control, Attached
<1>6. \A i \in Job : Bypasses(i)' <=> Bypasses(i)
  BY <1>3 DEF Bypasses
<1>7. StarterStays'
  <2>1. \A d \in Conn : flight'[d].by = IF d = c THEN NoJob ELSE flight[d].by
    BY <1>2 DEF Control, TypeOK, NoFlight
  <2> HIDE DEF c, f, got
  <2>2. ASSUME NEW d \in Conn, flight'[d].by \in Job
        PROVE  /\ job'[flight'[d].by].conn = d
               /\ job'[flight'[d].by].pc \in {"ready", "waiting"}
               /\ ~Bypasses(flight[d].by)'
    <3>1. d # c /\ flight'[d].by = flight[d].by
      BY <2>1, <2>2, TokenRefreshAssumption
    <3>2. /\ job[flight[d].by].conn = d /\ job[flight[d].by].pc \in {"ready", "waiting"}
          /\ ~Bypasses(flight[d].by)
      BY <2>2, <3>1 DEF Control, StarterStays
    <3>3. flight[d].by # j
      BY <3>1, <3>2 DEF c
    <3> QED
      BY <1>3, <1>6, <2>2, <3>1, <3>2, <3>3
  <2>3. \A d \in Conn : flight'[d].by \in Job => flight'[d].by = flight[d].by
    BY <2>1, TokenRefreshAssumption
  <2> QED
    BY <2>2, <2>3 DEF StarterStays
<1>8. LaneHeld'
  BY <1>1, <1>2, <1>3, SMTT(20), ZenonT(40) DEF Control, TypeOK, LaneHeld, InTurn, Holds, NoFlight, UseRow
<1>9. Bypassing'
  <2>1. stray' = stray
    BY DEF UseRow
  <2> QED
    BY <1>1, <1>3, <1>6, <2>1 DEF Control, Bypassing
<1> QED
  BY <1>4, <1>5, <1>7, <1>8, <1>9 DEF Control

LEMMA EnqueueControl ==
  ASSUME Control, NEW j \in Job, Enqueue(j)
  PROVE  Control'
<1> DEFINE c == job[j].conn
<1>1. c \in Conn /\ GroupOf[c] \in Group /\ job[j].pc = "ready" /\ ~Bypasses(j)
  BY TokenRefreshAssumption DEF Control, Attached, CanStart, Enqueue
<1>2. PICK t \in {job[j].tok, row[c].tok} :
        /\ flight' = [flight EXCEPT ![c] = FlightOf(j, t)]
        /\ job' = [job EXCEPT ![j].pc = "waiting", ![j].tok = t]
        /\ mishap' = mishap \/ Mishap(c, "db")
  BY DEF Enqueue
<1>3. t \in Nat
  BY <1>1 DEF Control, TypeOK, JobState, Row
<1>4. /\ FlightOf(j, t) \in Flight
      /\ FlightOf(j, t).pc = "queued"
      /\ FlightOf(j, t).by = j
  BY <1>3, FlightOfType DEF Control, FlightOf, NoFlight
<1>5. \A i \in Job : /\ job'[i] \in JobState
                     /\ job'[i].conn = job[i].conn
                     /\ job'[i].kind = job[i].kind /\ job'[i].ran = job[i].ran
                     /\ job'[i].pc = IF i = j THEN "waiting" ELSE job[i].pc
  <2>1. \A r \in JobState : LET x == [r EXCEPT !.pc = "waiting", !.tok = t]
                            IN /\ x \in JobState /\ x.conn = r.conn
                               /\ x.kind = r.kind /\ x.pc = "waiting" /\ x.ran = r.ran
    BY <1>3 DEF JobState, Steps
  <2>2. job \in [Job -> JobState]
    BY DEF Control, TypeOK
  <2>3. \A i \in Job : job'[i] = IF i = j THEN [job[i] EXCEPT !.pc = "waiting", !.tok = t]
                                 ELSE job[i]
    BY <1>2, <2>2
  <2>4. ASSUME NEW i \in Job
        PROVE  /\ job'[i] \in JobState
               /\ job'[i].conn = job[i].conn
               /\ job'[i].kind = job[i].kind /\ job'[i].ran = job[i].ran
               /\ job'[i].pc = IF i = j THEN "waiting" ELSE job[i].pc
    <3>1. CASE i = j
      <4>1. job[i] \in JobState /\ job'[i] = [job[i] EXCEPT !.pc = "waiting", !.tok = t]
        BY <2>2, <2>3, <3>1
      <4> QED
        BY <2>1, <3>1, <4>1, Zenon
    <3>2. CASE i # j
      BY <2>2, <2>3, <3>2
    <3> QED
      BY <3>1, <3>2
  <2> QED
    BY <2>4
<1>6. /\ lane' \in [Group -> Seq(Conn \union Job)]
      /\ \A h \in Group, y \in Conn \union Job : Holds(h, y) => Holds(h, y)'
  BY <1>1, LaneAppend DEF Control, Enqueue
<1>7. TypeOK'
  <2>1. mishap' \in [Conn -> SUBSET HazardKinds]
    BY <1>1, <1>2, MishapType DEF Control, TypeOK
  <2>2. flight' \in [Conn -> Flight]
    BY <1>2, <1>4 DEF Control, TypeOK
  <2>3. job' \in [Job -> JobState]
    BY <1>2, <1>5 DEF Control, TypeOK
  <2> QED
    BY <1>6, <2>1, <2>2, <2>3 DEF Control, TypeOK, upstream, Enqueue
<1>8. Attached'
  BY <1>1, <1>5 DEF Control, Attached
<1>9. StarterStays'
  BY <1>1, <1>2, <1>4, <1>5 DEF Control, TypeOK, StarterStays, Bypasses
<1>10. LaneHeld'
  <2>1. ASSUME NEW d \in Conn, flight'[d].pc \in {"posting", "settling"}
        PROVE  Holds(GroupOf[d], d)'
    <3> HIDE DEF c
    <3>1. flight'[d].pc = flight[d].pc
      BY <1>1, <1>2, <1>4, <2>1 DEF Control, TypeOK
    <3>2. GroupOf[d] \in Group /\ Holds(GroupOf[d], d)
      BY <2>1, <3>1, TokenRefreshAssumption DEF Control, LaneHeld, InTurn
    <3> QED
      BY <1>6, <3>2
  <2>2. ASSUME NEW i \in Job, InTurn(i)'
        PROVE  Holds(GroupOf[job[i].conn], i)'
    <3>1. InTurn(i)
      BY <1>1, <1>5, <2>2 DEF InTurn
    <3>2. GroupOf[job[i].conn] \in Group /\ Holds(GroupOf[job[i].conn], i)
      BY <3>1, TokenRefreshAssumption DEF Control, Attached, LaneHeld, InTurn
    <3> HIDE DEF c
    <3> QED
      BY <1>5, <1>6, <3>2
  <2> QED
    BY <1>5, <2>1, <2>2 DEF LaneHeld, InTurn
<1>11. Bypassing'
  <2>1. /\ stray' = stray
        /\ \A i \in Job : Bypasses(i)' <=> Bypasses(i)
    BY <1>5 DEF Enqueue, Bypasses
  <2> QED
    BY <1>1, <1>5, <2>1 DEF Control, Bypassing
<1> QED
  BY <1>7, <1>8, <1>9, <1>10, <1>11 DEF Control

\* What upstream does when a token of connection c is presented.
LEMMA OutcomeTypes ==
  ASSUME TypeOK, NEW c \in Conn, NEW t, NEW got \in Answers(c), Outcome(c, t, got)
  PROVE  /\ got \in Result
         /\ newest' \in [Conn -> Token]
         /\ alive' \in [Conn -> BOOLEAN]
         /\ mishap' \in [Conn -> SUBSET HazardKinds]
<1>1. newest[c] + 1 \in Token
  BY DEF TypeOK, Token
<1>2. got \in Result
  BY <1>1, ResultTypes DEF Answers, Token
<1>3. mishap' \in [Conn -> SUBSET HazardKinds]
  BY MishapType DEF TypeOK, Outcome, Accept, Refuse, FailCall
<1>4. newest' \in [Conn -> Token] /\ alive' \in [Conn -> BOOLEAN]
  BY <1>1 DEF TypeOK, Outcome, Accept, Refuse, FailCall, upstream
<1> QED
  BY <1>2, <1>3, <1>4

LEMMA UpstreamControl ==
  ASSUME Control, NEW c \in Conn, UpstreamStep(c)
  PROVE  Control'
<1>1. PICK got \in Answers(c) :
        /\ Outcome(c, flight[c].tok, got)
        /\ flight' = [flight EXCEPT ![c].pc = "settling", ![c].got = got]
  BY DEF UpstreamStep
<1>2. /\ got \in Result
      /\ newest' \in [Conn -> Token]
      /\ alive' \in [Conn -> BOOLEAN]
      /\ mishap' \in [Conn -> SUBSET HazardKinds]
  BY <1>1, OutcomeTypes DEF Control
<1>3. \A d \in Conn : /\ flight'[d] \in Flight
                      /\ flight'[d].by = flight[d].by
                      /\ flight'[d].pc = IF d = c THEN "settling" ELSE flight[d].pc
  BY <1>1, <1>2, SMTT(20), ZenonT(40) DEF Control, TypeOK, Flight
<1>4. UNCHANGED <<row, rotated, lane, stray, job>> /\ flight[c].pc = "posting"
  BY DEF UpstreamStep
<1>5. TypeOK'
  BY <1>1, <1>2, <1>3, <1>4 DEF Control, TypeOK
<1>6. Attached'
  BY <1>4 DEF Control, Attached
<1>7. StarterStays'
  BY <1>3, <1>4 DEF Control, StarterStays, Bypasses
<1>8. LaneHeld'
  BY <1>3, <1>4 DEF Control, LaneHeld, InTurn, Holds
<1>9. Bypassing'
  BY <1>4 DEF Control, Bypassing, Bypasses
<1> QED
  BY <1>5, <1>6, <1>7, <1>8, <1>9 DEF Control

LEMMA DirectCallControl ==
  ASSUME Control, NEW j \in Job, DirectCall(j)
  PROVE  Control'
<1>1. TypeOK'
  <2>1. [job[j] EXCEPT !.pc = "calling"] \in JobState
    BY DEF Control, TypeOK, JobState, Steps
  <2> QED
    BY <2>1 DEF Control, TypeOK, upstream, memory, DirectCall
<1>2. Attached'
  BY DEF Control, TypeOK, Attached, DirectCall, memory
<1>3. StarterStays'
  BY DEF Control, TypeOK, StarterStays, Bypasses, DirectCall, memory
<1>4. LaneHeld'
  BY DEF Control, TypeOK, LaneHeld, InTurn, Holds, DirectCall, memory
<1>5. Bypassing'
  BY DEF Control, TypeOK, Bypassing, Bypasses, DirectCall, memory
<1> QED
  BY <1>1, <1>2, <1>3, <1>4, <1>5 DEF Control

LEMMA DirectAnswerControl ==
  ASSUME Control, NEW j \in Job, DirectAnswer(j)
  PROVE  Control'
<1>1. job[j].conn \in Conn /\ job[j].pc = "calling" /\ UNCHANGED <<row, memory>>
  BY DEF Control, Attached, DirectAnswer
<1>2. PICK got \in Answers(job[j].conn) :
        /\ Outcome(job[j].conn, job[j].tok, got)
        /\ job' = [job EXCEPT ![j].pc = "answered", ![j].got = got]
  BY DEF DirectAnswer
<1>3. /\ got \in Result
      /\ newest' \in [Conn -> Token]
      /\ alive' \in [Conn -> BOOLEAN]
      /\ mishap' \in [Conn -> SUBSET HazardKinds]
  BY <1>1, <1>2, OutcomeTypes DEF Control
<1>4. \A i \in Job : /\ job'[i] \in JobState
                     /\ job'[i].conn = job[i].conn
                     /\ job'[i].kind = job[i].kind
                     /\ job'[i].ran = job[i].ran
                     /\ job'[i].pc = IF i = j THEN "answered" ELSE job[i].pc
  BY <1>2, <1>3, SMTT(20), ZenonT(40) DEF Control, TypeOK, JobState, Steps
<1>5. TypeOK'
  BY <1>1, <1>2, <1>3, <1>4 DEF Control, TypeOK, memory
<1>6. Attached'
  BY <1>1, <1>4 DEF Control, Attached
<1>7. StarterStays'
  BY <1>1, <1>4 DEF Control, StarterStays, Bypasses, memory
<1>8. LaneHeld'
  BY <1>1, <1>4 DEF Control, LaneHeld, InTurn, Holds, memory
<1>9. Bypassing'
  BY <1>1, <1>4 DEF Control, Bypassing, Bypasses, memory
<1> QED
  BY <1>5, <1>6, <1>7, <1>8, <1>9 DEF Control

LEMMA StrayAnswerControl ==
  ASSUME Control, NEW c \in Conn, NEW t \in stray[c], StrayAnswer(c, t)
  PROVE  Control'
<1>1. UNCHANGED <<row, rotated, flight, lane, job>>
  BY DEF StrayAnswer
<1>2. /\ newest' \in [Conn -> Token]
      /\ alive' \in [Conn -> BOOLEAN]
      /\ mishap' \in [Conn -> SUBSET HazardKinds]
  BY OutcomeTypes DEF Control, StrayAnswer
<1>3. /\ stray' \in [Conn -> SUBSET Nat]
      /\ \A d \in Conn : stray'[d] \subseteq stray[d]
  BY DEF Control, TypeOK, StrayAnswer
<1>4. TypeOK'
  BY <1>1, <1>2, <1>3 DEF Control, TypeOK
<1>5. Attached' /\ StarterStays' /\ LaneHeld' /\ Bypassing'
  BY <1>1, <1>3 DEF Control, Attached, StarterStays, LaneHeld, Bypassing, Bypasses, InTurn, Holds
<1> QED
  BY <1>4, <1>5 DEF Control

LEMMA SettleControl ==
  ASSUME Control, NEW c \in Conn, Settle(c)
  PROVE  Control'
<1> DEFINE f == flight[c]
<1>1. /\ f \in Flight /\ f.got \in Result /\ GroupOf[c] \in Group
      /\ Finish(c, f, f.got, Waiters(c))
      /\ Waiters(c) \in SUBSET Job
      /\ Holds(GroupOf[c], c)
  BY TokenRefreshAssumption DEF Control, TypeOK, Flight, LaneHeld, InTurn, Settle, Waiters
<1>2. flight' = [flight EXCEPT ![c] = NoFlight]
  BY <1>1 DEF Finish
<1>3. \A i \in Job : /\ i # f.by /\ i \notin Waiters(c) => job'[i] = job[i]
                     /\ job'[i].conn = job[i].conn
                     /\ job'[i].kind = job[i].kind
                     /\ job'[i].pc = IF i \in Waiters(c) THEN "answered" ELSE job[i].pc
  <2> HIDE DEF f
  <2>1. TypeOK
    BY DEF Control
  <2> QED
    BY <1>1, <2>1, FinishMoves
<1>4. /\ lane' \in [Group -> Seq(Conn \union Job)]
      /\ \A h \in Group, y \in Conn \union Job : y # c /\ Holds(h, y) => Holds(h, y)'
  BY <1>1, LaneTail DEF Control, Settle
<1>5. TypeOK'
  <2>1. /\ row' \in [Conn -> Row] /\ mishap' \in [Conn -> SUBSET HazardKinds]
        /\ flight' \in [Conn -> Flight] /\ job' \in [Job -> JobState]
    <3> HIDE DEF f
    <3> QED
      BY <1>1, FinishType DEF Control
  <2>2. rotated' \in [Conn -> SUBSET Nat]
    BY DEF Control, TypeOK, Flight, Settle
  <2> QED
    BY <1>4, <2>1, <2>2 DEF Control, TypeOK, Settle, upstream
<1>6. Attached'
  BY <1>3 DEF Control, Attached, Waiters
<1>7. \A i \in Job : Bypasses(i)' <=> Bypasses(i)
  BY <1>3 DEF Bypasses
<1>8. StarterStays'
  <2>1. \A d \in Conn : flight'[d].by = IF d = c THEN NoJob ELSE flight[d].by
    BY <1>2 DEF Control, TypeOK, NoFlight
  <2>2. ASSUME NEW d \in Conn, flight'[d].by \in Job
        PROVE  /\ job'[flight'[d].by].conn = d
               /\ job'[flight'[d].by].pc \in {"ready", "waiting"}
               /\ ~Bypasses(flight[d].by)'
    <3>1. d # c /\ flight'[d].by = flight[d].by
      BY <2>1, <2>2, TokenRefreshAssumption
    <3>2. /\ job[flight[d].by].conn = d /\ job[flight[d].by].pc \in {"ready", "waiting"}
          /\ ~Bypasses(flight[d].by)
      BY <2>2, <3>1 DEF Control, StarterStays
    <3>3. flight[d].by \notin Waiters(c)
      BY <3>1, <3>2 DEF Waiters
    <3> QED
      BY <1>3, <1>7, <2>2, <3>1, <3>2, <3>3
  <2>3. \A d \in Conn : flight'[d].by \in Job => flight'[d].by = flight[d].by
    BY <2>1, TokenRefreshAssumption
  <2> QED
    BY <2>2, <2>3 DEF StarterStays
<1>9. LaneHeld'
  BY <1>2, <1>3, <1>4, TokenRefreshAssumption, SMTT(20), ZenonT(40)
     DEF Control, TypeOK, Attached, LaneHeld, InTurn, NoFlight, Waiters
<1>10. Bypassing'
  <2>1. stray' = stray
    BY DEF Settle
  <2>2. f.by \in Job => ~Bypasses(f.by)
    BY DEF Control, StarterStays
  <2>3. \A i \in Waiters(c) : ~Bypasses(i)
    <3>1. \A i \in Job : job[i].pc = "waiting" => ~Bypasses(i)
      BY DEF Control, Bypassing
    <3> QED
      BY <3>1 DEF Waiters
  <2> QED
    BY <1>3, <1>7, <2>1, <2>2, <2>3 DEF Control, Bypassing
<1> QED
  BY <1>5, <1>6, <1>8, <1>9, <1>10 DEF Control

LEMMA RetryControl ==
  ASSUME Control, NEW j \in Job, Retry(j), job[j].pc \in {"waiting", "calling", "answered"},
         UNCHANGED <<upstream, row, rotated, lane>>,
         stray' \in [Conn -> SUBSET Nat], \A c \in Conn : stray'[c] # {} => c \in Direct,
         mishap' \in [Conn -> SUBSET HazardKinds]
  PROVE  Control'
<1>1. CASE job[j].tries + 1 < MaxTries
  <2>1. \A r \in JobState : r.tries + 1 < MaxTries =>
           LET x == [r EXCEPT !.pc = "ready", !.tries = @ + 1]
           IN x \in JobState /\ x.conn = r.conn /\ x.kind = r.kind /\ x.ran = r.ran /\ x.pc = "ready"
    <3>1. \A r \in JobState, n \in 0 .. (MaxTries - 1) :
           LET x == [r EXCEPT !.pc = "ready", !.tries = n]
           IN x \in JobState /\ x.conn = r.conn /\ x.kind = r.kind /\ x.ran = r.ran /\ x.pc = "ready"
      BY DEF JobState, Steps
    <3>2. \A r \in JobState : r.tries + 1 < MaxTries => r.tries + 1 \in 0 .. (MaxTries - 1)
      BY TokenRefreshAssumption DEF JobState
    <3> QED
      BY <3>1, <3>2, Zenon
  <2>2. job \in [Job -> JobState] /\ job[j].tries + 1 < MaxTries
    BY <1>1 DEF Control, TypeOK
  <2>3. \A i \in Job : job'[i] = IF i = j THEN [job[i] EXCEPT !.pc = "ready", !.tries = @ + 1]
                                 ELSE job[i]
    BY <1>1, <2>2 DEF Retry
  <2>4. ASSUME NEW i \in Job
        PROVE  /\ job'[i] \in JobState
               /\ job'[i].conn = job[i].conn
               /\ job'[i].kind = job[i].kind /\ job'[i].ran = job[i].ran
               /\ job'[i].pc = IF i = j THEN "ready" ELSE job[i].pc
    <3>1. CASE i = j
      BY <2>1, <2>2, <2>3, <3>1, Zenon
    <3>2. CASE i # j
      BY <2>2, <2>3, <3>2
    <3> QED
      BY <3>1, <3>2
  <2>5. job' \in [Job -> JobState] /\ flight' = flight
    BY <1>1, <2>2, <2>4 DEF Retry
  <2>6. TypeOK'
    BY <2>5 DEF Control, TypeOK, upstream
  <2>7. Attached'
    BY <2>4 DEF Control, Attached
  <2>8. StarterStays'
    BY <2>4, <2>5 DEF Control, StarterStays, Bypasses
  <2>9. LaneHeld'
    BY <2>4, <2>5 DEF Control, LaneHeld, InTurn, Holds
  <2>10. Bypassing'
    BY <2>4 DEF Control, Bypassing, Bypasses
  <2> QED
    BY <2>6, <2>7, <2>8, <2>9, <2>10 DEF Control
<1>2. CASE ~(job[j].tries + 1 < MaxTries)
  <2>1. job' = [job EXCEPT ![j] = Idle]
    BY <1>2 DEF Retry, Done
  <2>2. flight' = [c \in Conn |-> IF flight[c].by = j
                                 THEN [flight[c] EXCEPT !.by = NoJob] ELSE flight[c]]
    BY <1>2 DEF Retry
  <2>3. \A c \in Conn : /\ flight'[c] \in Flight
                        /\ flight'[c].pc = flight[c].pc
                        /\ flight'[c].by = IF flight[c].by = j THEN NoJob ELSE flight[c].by
    BY <2>2, SMTT(20), ZenonT(40) DEF Control, TypeOK, Flight
  <2>4. TypeOK'
    BY <2>1, <2>2, <2>3, StartTypes DEF Control, TypeOK, upstream
  <2>5. Attached'
    BY <2>1 DEF Control, TypeOK, Attached, Idle
  <2>6. StarterStays'
    BY <2>1, <2>3, TokenRefreshAssumption, SMTT(20), ZenonT(40) DEF Control, TypeOK, StarterStays, Bypasses
  <2>7. LaneHeld'
    BY <2>1, <2>3 DEF Control, TypeOK, LaneHeld, InTurn, Holds, Idle
  <2>8. Bypassing'
    BY <2>1, TokenRefreshAssumption DEF Control, TypeOK, Bypassing, Bypasses, Idle
  <2> QED
    BY <2>4, <2>5, <2>6, <2>7, <2>8 DEF Control
<1> QED
  BY <1>1, <1>2

LEMMA TimeOutControl ==
  ASSUME Control, NEW j \in Job, TimeOut(j)
  PROVE  Control'
<1>1. job[j].conn \in Conn
  BY DEF Control, Attached, TimeOut
<1>2. mishap' \in [Conn -> SUBSET HazardKinds]
  BY <1>1, MishapType DEF Control, TimeOut
<1>3. /\ stray' \in [Conn -> SUBSET Nat]
      /\ \A c \in Conn : stray'[c] # {} => c \in Direct
  <2>1. CASE job[j].pc = "calling"
    <3>1. job[j].conn \in Direct
      BY <2>1 DEF Control, Bypassing, Bypasses
    <3>2. job[j].tok \in Nat
      BY DEF Control, TypeOK, JobState
    <3> QED
      BY <1>1, <2>1, <3>1, <3>2 DEF Control, TypeOK, Bypassing, TimeOut
  <2>2. CASE job[j].pc # "calling"
    BY <2>2 DEF Control, TypeOK, Bypassing, TimeOut
  <2> QED
    BY <2>1, <2>2
<1> QED
  BY <1>2, <1>3, RetryControl DEF TimeOut

LEMMA ReactiveRetriesControl ==
  ASSUME Control, NEW j \in Job, ReactiveRetries(j)
  PROVE  Control'
<1>1. mishap' \in [Conn -> SUBSET HazardKinds]
  BY DEF Control, TypeOK, ReactiveRetries
<1>2. /\ stray' \in [Conn -> SUBSET Nat]
      /\ \A c \in Conn : stray'[c] # {} => c \in Direct
  BY DEF Control, TypeOK, Bypassing, ReactiveRetries
<1> QED
  BY <1>1, <1>2, RetryControl DEF ReactiveRetries

LEMMA UsageLeavesControl ==
  ASSUME Control, NEW j \in Job, UsageLeaves(j)
  PROVE  Control'
<1> DEFINE c == job[j].conn
<1>1. /\ c \in Conn /\ GroupOf[c] \in Group /\ job[j].pc = "leaving"
      /\ Holds(GroupOf[c], j)
  BY TokenRefreshAssumption DEF Control, Attached, LaneHeld, InTurn, UsageLeaves
<1>2. /\ lane' \in [Group -> Seq(Conn \union Job)]
      /\ \A h \in Group, y \in Conn \union Job : y # j /\ Holds(h, y) => Holds(h, y)'
  BY <1>1, LaneTail DEF Control, UsageLeaves
<1>3. row' \in [Conn -> Row] /\ mishap' \in [Conn -> SUBSET HazardKinds]
  <2>1. job[j].got.tok \in Nat
    BY DEF Control, TypeOK, JobState, Result
  <2>2. CASE job[j].got.is = "ok"
    BY <1>1, <2>1, <2>2, WriteType, StoredType DEF Control, UsageLeaves
  <2>3. CASE job[j].got.is # "ok"
    BY <2>3 DEF Control, TypeOK, UsageLeaves
  <2> QED
    BY <2>2, <2>3
<1>4. job' = [job EXCEPT ![j] = Idle] /\ flight' = flight
  BY DEF UsageLeaves, Done
<1>5. TypeOK'
  BY <1>2, <1>3, <1>4, StartTypes DEF Control, TypeOK, UsageLeaves, upstream
<1>6. Attached'
  BY <1>4 DEF Control, TypeOK, Attached, Idle
<1>7. StarterStays'
  BY <1>1, <1>4 DEF Control, TypeOK, StarterStays, Bypasses
<1>8. LaneHeld'
  BY <1>2, <1>4, TokenRefreshAssumption DEF Control, TypeOK, Attached, LaneHeld, InTurn, Idle
<1>9. Bypassing'
  BY <1>4, TokenRefreshAssumption DEF Control, TypeOK, Bypassing, Bypasses, Idle, UsageLeaves
<1> QED
  BY <1>5, <1>6, <1>7, <1>8, <1>9 DEF Control

LEMMA InitControl ==
  ASSUME Init
  PROVE  Control
<1>1. TypeOK
  BY StartTypes DEF Init, TypeOK, Token, Row, HazardKinds
<1>2. Attached /\ StarterStays /\ LaneHeld /\ Bypassing
  BY TokenRefreshAssumption DEF Init, Attached, StarterStays, LaneHeld, Bypassing, Bypasses,
     InTurn, Idle, NoFlight
<1> QED
  BY <1>1, <1>2 DEF Control

LEMMA NextControl ==
  ASSUME Control, [Next]_vars
  PROVE  Control'
<1>1. ASSUME NEW j \in Job, CallerStep(j) \/ TimeOut(j)
      PROVE  Control'
  BY <1>1, UsageTurnControl, JoinFlightControl, RotationHitControl, UseRowControl,
     EnqueueControl, TakeTokensControl, ReactiveGivesUpControl, SweepGivesUpControl,
     ReactiveRetriesControl, GoOnControl, UsageAnsweredControl, UsageLeavesControl,
     DirectCallControl, DirectAnswerControl, TimeOutControl DEF CallerStep
<1>2. ASSUME NEW j \in Job, NEW c \in Conn, NEW k \in KindsOf[c], Load(j, c, k)
      PROVE  Control'
  <2>1. k \in AllKinds
    BY TokenRefreshAssumption
  <2> QED
    BY <1>2, <2>1, LoadControl
<1>3. ASSUME NEW c \in Conn,
             \/ Turn(c) \/ UpstreamStep(c) \/ Settle(c) \/ Age(c)
             \/ \E t \in rotated[c] : RotationExpires(c, t)
             \/ \E t \in stray[c] : StrayAnswer(c, t)
      PROVE  Control'
  BY <1>3, TurnControl, UpstreamControl, SettleControl, AgeControl, RotationExpiresControl,
     StrayAnswerControl
<1>4. CASE Crash
  BY <1>4, CrashControl
<1>5. CASE UNCHANGED vars
  BY <1>5 DEF vars, upstream, memory, Control, TypeOK, Attached, StarterStays, LaneHeld,
              InTurn, Holds, Bypassing, Bypasses
<1> QED
  BY <1>1, <1>2, <1>3, <1>4, <1>5 DEF Next, FlightStep

\* Every behaviour keeps the control invariant: types, callers that have a
\* connection, starters that stay, lanes held by who is in them.
THEOREM ControlHolds == Spec => []Control
<1>1. Init => Control
  BY InitControl
<1>2. Control /\ [Next]_vars => Control'
  BY NextControl
<1> QED
  BY <1>1, <1>2, PTL DEF Spec

\* Every variable has its type in every reachable state.
THEOREM RefreshTypes == Spec => []TypeOK
<1>1. Control => TypeOK
  BY DEF Control
<1> QED
  BY <1>1, ControlHolds, PTL

\* serializeRefresh lets one call per rotation group through at a time, its
\* settle gap included, whatever fails and whoever gives up waiting, for every
\* call that is made in a lane: all but kiro's after a 401 or 403, which take no
\* turn.  Who calls is the head of the lane, and a lane has one head.
THEOREM OneCallPerGroup == Spec => []OnePostPerGroup
<1>1. ASSUME Control, NEW x \in Calls
      PROVE  GroupAt(x) \in Group /\ Holds(GroupAt(x), x)
  <2>1. CASE x \in Conn
    <3>1. x \notin Job
      BY <2>1, TokenRefreshAssumption
    <3>2. flight[x].pc \in {"posting", "settling"} /\ GroupAt(x) = GroupOf[x]
      BY <1>1, <2>1, <3>1 DEF Calls, GroupAt
    <3> QED
      BY <1>1, <2>1, <3>2, TokenRefreshAssumption DEF Control, LaneHeld
  <2>2. CASE x \notin Conn
    <3>1. x \in Job /\ InTurn(x) /\ GroupAt(x) = GroupOf[job[x].conn] /\ job[x].conn \in Conn
      BY <1>1, <2>2 DEF Calls, GroupAt, InTurn, Control, Attached
    <3> QED
      BY <1>1, <3>1, TokenRefreshAssumption DEF Control, LaneHeld
  <2> QED
    BY <2>1, <2>2
<1>2. Control => OnePostPerGroup
  BY <1>1 DEF Holds, OnePostPerGroup
<1> QED
  BY <1>2, ControlHolds, PTL

(***************************************************************************)
(* The steps keep what is good, and Sound.                                 *)
(***************************************************************************)

\* Nothing about connection c changes.
SameData(c) == /\ newest'[c] = newest[c]
               /\ alive'[c] = alive[c]
               /\ row'[c] = row[c]
               /\ rotated'[c] = rotated[c]
               /\ flight'[c] = flight[c]
               /\ stray'[c] = stray[c]

\* Only caller j of connection c moves.
LEMMA CallerMoves ==
  ASSUME Control, NEW c \in Conn, NEW j \in Job, Good(c), SameData(c),
         \A i \in Job : i # j => job'[i] = job[i],
         At(j, c)' => JobGood(c, j)',
         flight[c].pc # "none" => flight[c].by # j /\ job'[j].pc # "answered",
         ~(At(j, c) /\ Writer(j))
  PROVE  Good(c)'
<1>1. \A i \in Job : i # j => (At(i, c)' <=> At(i, c))
  BY DEF At
<1>2. Behind(c)' <=> Behind(c)
  BY DEF Behind, SameData
<1>3. Rotating(c)' <=> Rotating(c)
  BY DEF Rotating, SameData
<1>4. alive'[c] /\ \A t \in rotated'[c] : newest'[c] = t + 1
  BY DEF Good, SameData
<1>5. Pending(c) => Pending(c)'
  <2>1. ASSUME NEW i \in Job, At(i, c), Writer(i)
        PROVE  At(i, c)' /\ Writer(i)'
    BY <2>1 DEF At, Writer
  <2> QED
    BY <2>1 DEF Pending
<1>6. flight[c].pc # "none" => FlightGood(c)'
  BY <1>1, <1>3 DEF Good, FlightGood, SameData, At
<1>7. ASSUME NEW i \in Job, At(i, c)'
      PROVE  JobGood(c, i)'
  BY <1>1, <1>2, <1>3, <1>7 DEF Good, JobGood, SameData
<1> QED
  BY <1>2, <1>4, <1>5, <1>6, <1>7 DEF Good, SameData

\* Nothing about connection c moves.
LEMMA Frame ==
  ASSUME Control, NEW c \in Conn, Good(c), SameData(c),
         \A i \in Job : At(i, c) \/ At(i, c)' => job'[i] = job[i]
  PROVE  Good(c)'
<1>1. \A i \in Job : At(i, c)' <=> At(i, c)
  BY DEF At
<1>2. Behind(c)' <=> Behind(c)
  BY DEF Behind, SameData
<1>3. Rotating(c)' <=> Rotating(c)
  BY DEF Rotating, SameData
<1>4. alive'[c] /\ \A t \in rotated'[c] : newest'[c] = t + 1
  BY DEF Good, SameData
<1>5. Pending(c) => Pending(c)'
  BY <1>1 DEF Pending, Writer
<1>6. flight[c].pc # "none" => FlightGood(c)'
  <2>1. flight[c].by \in Job => job[flight[c].by].conn = c
    BY DEF Control, StarterStays
  <2> QED
    BY <1>1, <1>3, <2>1 DEF Good, FlightGood, SameData, At
<1>7. ASSUME NEW i \in Job, At(i, c)'
      PROVE  JobGood(c, i)'
  BY <1>1, <1>2, <1>3, <1>7 DEF Good, JobGood, SameData
<1> QED
  BY <1>2, <1>4, <1>5, <1>6, <1>7 DEF Good, SameData

\* Nothing goes wrong for connection c.
Spared(c) == mishap'[c] = mishap[c]

\* What is good stays good, unless something goes wrong.
Keeps == \A c \in Conn : /\ mishap[c] \subseteq mishap'[c]
                         /\ c \notin Direct /\ Good(c) /\ Spared(c) => Good(c)'

\* Callers that deal with connection e, now and afterwards, or not at all.
Only(e, i) == \/ job'[i] = job[i]
              \/ /\ job[i].pc = "idle" \/ job[i].conn = e
                 /\ job'[i].pc = "idle" \/ job'[i].conn = e

\* The step is about connection e and leaves the others alone.
Local(e) == /\ \A d \in Conn : d # e => SameData(d)
            /\ \A i \in Job : Only(e, i)

LEMMA Elsewhere ==
  ASSUME Control, NEW e \in Conn,
         \A d \in Conn : d # e => SameData(d),
         \A i \in Job : Only(e, i),
         \A d \in Conn : mishap[d] \subseteq mishap'[d],
         e \notin Direct /\ Good(e) /\ Spared(e) => Good(e)'
  PROVE  Keeps /\ Local(e)
<1>1. ASSUME NEW d \in Conn, d # e, Good(d)
      PROVE  Good(d)'
  <2>1. \A i \in Job : At(i, d) \/ At(i, d)' => job'[i] = job[i]
    BY <1>1 DEF At, Only
  <2> QED
    BY <1>1, <2>1, Frame
<1> QED
  BY <1>1 DEF Keeps, Local

LEMMA UsageTurnSound ==
  ASSUME Control, NEW j \in Job, UsageTurn(j)
  PROVE  Keeps /\ Local(job[j].conn)
<1>0. PICK e \in Conn : e = job[j].conn
  BY DEF Control, Attached, UsageTurn
<1>1. e \in Conn /\ At(j, e) /\ job[j].pc = "outer"
  BY <1>0 DEF Control, Attached, At, UsageTurn
<1>2. /\ \A i \in Job : i # j => job'[i] = job[i]
      /\ job'[j].pc = "ready" /\ job'[j].conn = job[j].conn
      /\ job'[j].tok = job[j].tok /\ job'[j].kind = job[j].kind
      /\ job'[j].got = job[j].got /\ job'[j].ran = job[j].ran
  BY <1>0 DEF Control, TypeOK, JobState, UsageTurn
<1>3. UNCHANGED <<newest, alive, row, rotated, flight, stray, mishap>>
  BY DEF UsageTurn, upstream, memory
<1>4. ASSUME Good(e)
      PROVE  Good(e)'
  <2>1. Good(e)
    BY <1>1, <1>4
  <2>2. SameData(e)
    BY <1>3 DEF SameData
  <2>3. JobGood(e, j)'
    <3>1. JobGood(e, j)
      BY <1>1, <2>1 DEF Good
    <3>2. (Behind(e)' <=> Behind(e)) /\ (Rotating(e)' <=> Rotating(e))
      BY <1>3 DEF Behind, Rotating
    <3> QED
      BY <1>1, <1>2, <1>3, <3>1, <3>2 DEF JobGood, UsageTurn
  <2>4. flight[e].pc # "none" => flight[e].by # j /\ job'[j].pc # "answered"
    BY <1>1, <1>2, <2>1 DEF Good, FlightGood, At
  <2>5. ~Writer(j)
    BY <1>1 DEF Writer, UsageTurn
  <2> QED
    BY <1>1, <1>2, <2>1, <2>2, <2>3, <2>4, <2>5, CallerMoves
<1>5. \A i \in Job : Only(e, i)
  BY <1>0, <1>1, <1>2 DEF Only
<1>6. \A d \in Conn : d # e => SameData(d)
  BY <1>3 DEF SameData
<1> QED
  BY <1>0, <1>1, <1>3, <1>4, <1>5, <1>6, Elsewhere


LEMMA JoinFlightSound ==
  ASSUME Control, NEW j \in Job, JoinFlight(j)
  PROVE  Keeps /\ Local(job[j].conn)
<1>0. PICK e \in Conn : e = job[j].conn
  BY DEF Control, Attached, JoinFlight
<1>1. e \in Conn /\ At(j, e) /\ job[j].pc = "ready"
  BY <1>0 DEF Control, Attached, At, JoinFlight
<1>2. /\ \A i \in Job : i # j => job'[i] = job[i]
      /\ job'[j].pc = "waiting" /\ job'[j].conn = job[j].conn
      /\ job'[j].tok = job[j].tok /\ job'[j].kind = job[j].kind
      /\ job'[j].got = job[j].got /\ job'[j].ran = job[j].ran
  BY <1>0 DEF Control, TypeOK, JobState, JoinFlight
<1>3. UNCHANGED <<newest, alive, row, rotated, flight, stray, mishap>>
  BY DEF JoinFlight, upstream, memory
<1>4. ASSUME Good(e)
      PROVE  Good(e)'
  <2>1. Good(e)
    BY <1>1, <1>4
  <2>2. SameData(e)
    BY <1>3 DEF SameData
  <2>3. JobGood(e, j)'
    <3>1. JobGood(e, j)
      BY <1>1, <2>1 DEF Good
    <3>2. (Behind(e)' <=> Behind(e)) /\ (Rotating(e)' <=> Rotating(e))
      BY <1>3 DEF Behind, Rotating
    <3> QED
      BY <1>1, <1>2, <1>3, <3>1, <3>2 DEF JobGood, JoinFlight
  <2>4. flight[e].pc # "none" => flight[e].by # j /\ job'[j].pc # "answered"
    BY <1>1, <1>2, <2>1 DEF Good, FlightGood, At
  <2>5. ~Writer(j)
    BY <1>1 DEF Writer, JoinFlight
  <2> QED
    BY <1>1, <1>2, <2>1, <2>2, <2>3, <2>4, <2>5, CallerMoves
<1>5. \A i \in Job : Only(e, i)
  BY <1>0, <1>1, <1>2 DEF Only
<1>6. \A d \in Conn : d # e => SameData(d)
  BY <1>3 DEF SameData
<1> QED
  BY <1>0, <1>1, <1>3, <1>4, <1>5, <1>6, Elsewhere


LEMMA UsageAnsweredSound ==
  ASSUME Control, NEW j \in Job, UsageAnswered(j)
  PROVE  Keeps /\ Local(job[j].conn)
<1>0. PICK e \in Conn : e = job[j].conn
  BY DEF Control, Attached, UsageAnswered
<1>1. e \in Conn /\ At(j, e) /\ job[j].pc = "answered"
  BY <1>0 DEF Control, Attached, At, UsageAnswered
<1>2. /\ \A i \in Job : i # j => job'[i] = job[i]
      /\ job'[j].pc = "leaving" /\ job'[j].conn = job[j].conn
      /\ job'[j].tok = job[j].tok /\ job'[j].kind = job[j].kind
      /\ job'[j].got = job[j].got /\ job'[j].ran = job[j].ran
  BY <1>0 DEF Control, TypeOK, JobState, UsageAnswered
<1>3. UNCHANGED <<newest, alive, row, rotated, flight, stray, mishap>>
  BY DEF UsageAnswered, upstream, memory
<1>4. ASSUME Good(e)
      PROVE  Good(e)'
  <2>1. Good(e)
    BY <1>1, <1>4
  <2>2. SameData(e)
    BY <1>3 DEF SameData
  <2>3. JobGood(e, j)'
    <3>1. JobGood(e, j)
      BY <1>1, <2>1 DEF Good
    <3>2. (Behind(e)' <=> Behind(e)) /\ (Rotating(e)' <=> Rotating(e))
      BY <1>3 DEF Behind, Rotating
    <3> QED
      BY <1>1, <1>2, <1>3, <3>1, <3>2 DEF JobGood, UsageAnswered
  <2>4. flight[e].pc # "none" => flight[e].by # j /\ job'[j].pc # "answered"
    BY <1>1, <1>2, <2>1 DEF Good, FlightGood, At
  <2>5. ~Writer(j)
    BY <1>1 DEF Writer, UsageAnswered
  <2> QED
    BY <1>1, <1>2, <2>1, <2>2, <2>3, <2>4, <2>5, CallerMoves
<1>5. \A i \in Job : Only(e, i)
  BY <1>0, <1>1, <1>2 DEF Only
<1>6. \A d \in Conn : d # e => SameData(d)
  BY <1>3 DEF SameData
<1> QED
  BY <1>0, <1>1, <1>3, <1>4, <1>5, <1>6, Elsewhere


\* A caller that is through with connection e, or back at its start, without
\* having got new tokens.
LEMMA LeavesEmptyHanded ==
  ASSUME Control, NEW j \in Job, job[j].pc = "answered", job[j].got.is # "ok",
         NEW e \in Conn, e = job[j].conn, Good(e), SameData(e),
         \A i \in Job : i # j => job'[i] = job[i],
         \/ job'[j].pc = "idle"
         \/ /\ job'[j].pc = "ready"
            /\ job'[j].tok = job[j].tok
            /\ job'[j].ran = job[j].ran
  PROVE  Good(e)'
<1>1. At(j, e)
  BY DEF At
<1>2. JobGood(e, j) /\ flight[e].pc = "none"
  BY <1>1 DEF Good, FlightGood
<1>3. job[j].got.is = "null" /\ rotated[e] = {} /\ ~job[j].ran
  <2>1. job[j].got.is \in {"ok", "dead", "null"}
    BY DEF Control, TypeOK, JobState, Result
  <2> QED
    BY <1>2, <2>1 DEF JobGood
<1>4. At(j, e)' => JobGood(e, j)'
  <2>1. Rotating(e)' <=> Rotating(e)
    BY DEF Rotating, SameData
  <2> QED
    BY <1>2, <1>3, <2>1 DEF JobGood, At, SameData
<1>5. ~Writer(j)
  BY DEF Writer
<1> QED
  BY <1>2, <1>4, <1>5, CallerMoves

LEMMA GoOnSound ==
  ASSUME Control, NEW j \in Job, GoOn(j)
  PROVE  Keeps /\ Local(job[j].conn)
<1>0. PICK e \in Conn : e = job[j].conn
  BY DEF Control, Attached, GoOn
<1>1. /\ e \in Conn /\ job[j].pc = "answered" /\ At(j, e)
      /\ job[j].got.is # "ok" \/ job[j].kind = "check"
  BY <1>0 DEF Control, Attached, GoOn, Null, At
<1>2. /\ \A i \in Job : i # j => job'[i] = job[i]
      /\ job'[j].pc = "idle"
  BY <1>0 DEF Control, TypeOK, GoOn, Done, Idle
<1>3. UNCHANGED <<newest, alive, row, rotated, flight, stray, mishap>>
  BY DEF GoOn, upstream, memory
<1>4. \A d \in Conn : SameData(d)
  BY <1>3 DEF SameData
<1>5. \A i \in Job : Only(e, i)
  BY <1>0, <1>2 DEF Only
<1>6. ASSUME Good(e)
      PROVE  Good(e)'
  <2>1. CASE job[j].got.is # "ok"
    BY <1>0, <1>1, <1>2, <1>4, <1>6, <2>1, LeavesEmptyHanded
  <2>2. CASE job[j].kind = "check"
    <3>1. flight[e].pc = "none" /\ ~Writer(j) /\ ~At(j, e)'
      BY <1>1, <1>2, <1>6, <2>2 DEF Good, FlightGood, Writer, At
    <3> QED
      BY <1>0, <1>2, <1>4, <1>6, <3>1, CallerMoves
  <2> QED
    BY <1>1, <2>1, <2>2
<1> QED
  BY <1>0, <1>1, <1>3, <1>4, <1>5, <1>6, Elsewhere

LEMMA ReactiveRetriesSound ==
  ASSUME Control, NEW j \in Job, ReactiveRetries(j)
  PROVE  Keeps /\ Local(job[j].conn)
<1>0. PICK e \in Conn : e = job[j].conn
  BY DEF Control, Attached, ReactiveRetries
<1>1. e \in Conn /\ job[j].pc = "answered" /\ job[j].got.is # "ok"
  BY <1>0 DEF Control, Attached, ReactiveRetries, Null
<1>2. /\ \A i \in Job : i # j => job'[i] = job[i]
      /\ \/ job'[j].pc = "idle"
         \/ /\ job'[j].pc = "ready" /\ job'[j].conn = e
            /\ job'[j].tok = job[j].tok /\ job'[j].ran = job[j].ran
  BY <1>0 DEF Control, TypeOK, ReactiveRetries, Retry, Done, Idle, JobState
<1>3. UNCHANGED <<newest, alive, row, rotated, stray, mishap>>
  BY DEF ReactiveRetries, upstream
<1>4. \A d \in Conn : SameData(d)
  <2>1. \A d \in Conn : flight[d].by # j
    BY <1>1 DEF Control, StarterStays
  <2>2. \A d \in Conn : flight'[d] = flight[d]
    BY <2>1 DEF ReactiveRetries, Retry
  <2> QED
    BY <1>3, <2>2 DEF SameData
<1>5. \A i \in Job : Only(e, i)
  BY <1>0, <1>2 DEF Only
<1>6. Good(e) => Good(e)'
  BY <1>0, <1>1, <1>2, <1>4, LeavesEmptyHanded
<1> QED
  BY <1>0, <1>1, <1>3, <1>4, <1>5, <1>6, Elsewhere

\* When nothing is left to do without waiting and no refresh is under way, the
\* row is up to date.
LEMMA QuietRow ==
  ASSUME NEW c \in Conn, Good(c), Quiet, flight[c].pc = "none"
  PROVE  ~Behind(c)
BY DEF Good, Pending, Writer, Quiet

LEMMA LoadSound ==
  ASSUME Control, NEW j \in Job, NEW c \in Conn, NEW k \in AllKinds, Load(j, c, k)
  PROVE  Keeps /\ Local(c)
<1>1. /\ job[j].pc = "idle" /\ row[c].tok # 0 /\ Quiet
      /\ UNCHANGED <<newest, alive, row, rotated, flight, stray>>
  BY DEF Load, upstream
<1>2. /\ \A i \in Job : i # j => job'[i] = job[i]
      /\ job'[j].pc \in {"outer", "ready"}
      /\ job'[j].conn = c /\ job'[j].tok = row[c].tok /\ job'[j].ran = FALSE
  <2>1. \A t \in Nat, pc \in {"outer", "ready"} :
          LET x == [Idle EXCEPT !.pc = pc, !.conn = c, !.kind = k, !.tok = t, !.first = t]
          IN x.pc = pc /\ x.conn = c /\ x.tok = t /\ x.ran = FALSE
    BY DEF Idle
  <2>2. row[c].tok \in Nat
    BY DEF Control, TypeOK, Row
  <2>3. PICK pc \in {"outer", "ready"} : job' = [job EXCEPT ![j] =
           [Idle EXCEPT !.pc = pc, !.conn = c, !.kind = k, !.tok = row[c].tok, !.first = row[c].tok]]
    BY DEF Load
  <2>4. job \in [Job -> JobState]
    BY DEF Control, TypeOK
  <2> DEFINE x == [Idle EXCEPT !.pc = pc, !.conn = c, !.kind = k, !.tok = row[c].tok, !.first = row[c].tok]
  <2>5. x.pc = pc /\ x.conn = c /\ x.tok = row[c].tok /\ x.ran = FALSE
    BY <2>1, <2>2
  <2>6. job' = [job EXCEPT ![j] = x]
    BY <2>3
  <2> HIDE DEF x
  <2> QED
    BY <2>4, <2>5, <2>6
<1>3. \A d \in Conn : SameData(d)
  BY <1>1 DEF SameData
<1>4. \A d \in Conn : mishap[d] \subseteq mishap'[d]
  BY DEF Load, Mishap, Control, TypeOK
<1>5. Spared(c) => ~row[c].fresh
  BY DEF Load, Spared, Mishap, MayHappen, Control, TypeOK
<1>6. ASSUME Good(c), ~row[c].fresh
      PROVE  Good(c)'
  <2>1. CASE flight[c].pc = "none"
    <3>1. row[c].tok = newest[c] /\ rotated[c] = {}
      BY <1>1, <1>6, <2>1, QuietRow DEF Behind
    <3>2. JobGood(c, j)'
      BY <1>1, <1>2, <2>1, <3>1 DEF JobGood, Rotating, Control, TypeOK, Token
    <3>3. ~At(j, c)
      BY <1>1 DEF At
    <3> QED
      BY <1>2, <1>3, <1>6, <2>1, <3>2, <3>3, CallerMoves
  <2>2. CASE flight[c].pc # "none"
    <3>1. FlightGood(c) /\ flight[c].tok \in Nat
      BY <1>6, <2>2 DEF Good, Control, TypeOK, Flight
    <3>2. JobGood(c, j)'
      BY <1>1, <1>2, <2>2, <3>1 DEF JobGood, FlightGood, Rotating, Control, TypeOK, Token
    <3>3. ~At(j, c)
      BY <1>1 DEF At
    <3>4. flight[c].by # j /\ job'[j].pc # "answered"
      BY <1>1, <1>2, <3>1 DEF FlightGood
    <3> QED
      BY <1>2, <1>3, <1>6, <3>2, <3>3, <3>4, CallerMoves
  <2> QED
    BY <2>1, <2>2
<1>7. \A i \in Job : Only(c, i)
  BY <1>1, <1>2 DEF Only
<1>8. Good(c) /\ Spared(c) => Good(c)'
  BY <1>5, <1>6
<1> QED
  BY <1>3, <1>4, <1>7, <1>8, Elsewhere

\* Only what upstream and the row hold of connection c changes.
LEMMA DataMoves ==
  ASSUME Control, NEW c \in Conn, UNCHANGED <<job, mishap>>,
         \A d \in Conn : d # c => SameData(d),
         Good(c) => Good(c)'
  PROVE  Keeps /\ Local(c)
<1>1. \A i \in Job : Only(c, i)
  BY DEF Only
<1> QED
  BY <1>1, Elsewhere

LEMMA AgeSound ==
  ASSUME Control, NEW c \in Conn, Age(c)
  PROVE  Keeps /\ Local(c)
<1>1. \A d \in Conn : d # c => SameData(d)
  BY DEF SameData, Age, upstream, memory
<1>2. ASSUME Good(c)
      PROVE  Good(c)'
  <2>1. /\ UNCHANGED <<newest, alive, rotated, flight, job>>
        /\ row'[c].tok = row[c].tok /\ rotated[c] = {}
    BY DEF Age, upstream, memory, Control, TypeOK, Row
  <2>2. /\ Behind(c)' <=> Behind(c)
        /\ Rotating(c)' <=> Rotating(c)
        /\ Pending(c)' <=> Pending(c)
    BY <2>1 DEF Behind, Rotating, Pending, At, Writer
  <2>3. FlightGood(c) => FlightGood(c)'
    BY <2>1, <2>2 DEF FlightGood, At
  <2>4. \A i \in Job : /\ At(i, c)' <=> At(i, c)
                       /\ JobGood(c, i) => JobGood(c, i)'
    BY <2>1, <2>2 DEF JobGood, At
  <2> QED
    BY <1>2, <2>1, <2>2, <2>3, <2>4 DEF Good
<1>3. Good(c) => Good(c)'
  BY <1>2
<1> QED
  BY <1>1, <1>3, DataMoves DEF Age

LEMMA RotationExpiresSound ==
  ASSUME Control, NEW c \in Conn, NEW t \in rotated[c], RotationExpires(c, t)
  PROVE  Keeps /\ Local(c)
<1>1. \A d \in Conn : d # c => SameData(d)
  BY DEF SameData, RotationExpires, upstream
<1>2. ASSUME Good(c)
      PROVE  Good(c)'
  <2>1. /\ UNCHANGED <<newest, alive, row, flight, job>>
        /\ rotated'[c] \subseteq rotated[c]
    BY DEF RotationExpires, upstream, Control, TypeOK
  <2>2. /\ Behind(c)' => Behind(c)
        /\ Rotating(c)' <=> Rotating(c)
        /\ Pending(c)' <=> Pending(c)
    BY <2>1 DEF Behind, Rotating, Pending, At, Writer
  <2>3. FlightGood(c) => FlightGood(c)'
    BY <2>1, <2>2 DEF FlightGood, At
  <2>4. \A i \in Job : /\ At(i, c)' <=> At(i, c)
                       /\ JobGood(c, i) => JobGood(c, i)'
    BY <2>1, <2>2 DEF JobGood, At
  <2> QED
    BY <1>2, <2>1, <2>2, <2>3, <2>4 DEF Good
<1>3. Good(c) => Good(c)'
  BY <1>2
<1> QED
  BY <1>1, <1>3, DataMoves DEF RotationExpires

LEMMA TurnSound ==
  ASSUME Control, NEW c \in Conn, Turn(c)
  PROVE  Keeps /\ Local(c)
<1>1. \A d \in Conn : d # c => SameData(d)
  BY DEF SameData, Turn, upstream
<1>2. ASSUME Good(c)
      PROVE  Good(c)'
  <2>1. /\ UNCHANGED <<newest, alive, row, rotated, job>>
        /\ flight[c].pc = "queued" /\ flight'[c].pc = "posting"
        /\ flight'[c].tok = flight[c].tok /\ flight'[c].got = flight[c].got
        /\ flight'[c].by = flight[c].by /\ flight'[c].kind = flight[c].kind
        /\ flight'[c].want = flight[c].want
    BY DEF Turn, upstream, Control, TypeOK, Flight
  <2>2. (Behind(c)' <=> Behind(c)) /\ ~Rotating(c) /\ ~Rotating(c)'
    BY <2>1 DEF Behind, Rotating
  <2>3. FlightGood(c)'
    BY <1>2, <2>1, <2>2 DEF Good, FlightGood, At
  <2>4. \A i \in Job : /\ At(i, c)' <=> At(i, c)
                       /\ JobGood(c, i) => JobGood(c, i)'
    BY <2>1, <2>2 DEF JobGood, At
  <2> QED
    BY <1>2, <2>1, <2>2, <2>3, <2>4 DEF Good
<1>3. Good(c) => Good(c)'
  BY <1>2
<1> QED
  BY <1>1, <1>3, DataMoves DEF Turn

\* A call at upstream and a quota page about to leave are not in one lane.
LEMMA LaneOfOne ==
  ASSUME Control, NEW c \in Conn, flight[c].pc \in {"posting", "settling"},
         NEW j \in Job, InTurn(j)
  PROVE  GroupOf[job[j].conn] # GroupOf[c]
BY TokenRefreshAssumption DEF Control, LaneHeld, Holds

\* What upstream answers is about connection c only.  Where nothing goes wrong
\* it accepts the newest token of a family that lives, or answers nothing.
LEMMA OutcomeIs ==
  ASSUME Control, NEW c \in Conn, NEW t, NEW got, Outcome(c, t, got)
  PROVE  /\ \A d \in Conn : mishap[d] \subseteq mishap'[d]
         /\ \A d \in Conn : d # c => newest'[d] = newest[d] /\ alive'[d] = alive[d]
         /\ Spared(c) /\ alive[c] /\ t = newest[c] =>
               /\ alive'[c]
               /\ \/ newest'[c] = newest[c] + 1 /\ got = Ok(newest[c] + 1)
                  \/ newest'[c] = newest[c] /\ got = Null
         /\ t # newest[c] => newest'[c] = newest[c] /\ got.is # "ok"
<1>1. \A k : Mishap(c, k) => /\ \A d \in Conn : mishap[d] \subseteq mishap'[d]
                             /\ ~Spared(c)
  BY DEF Mishap, MayHappen, Spared, Control, TypeOK
<1>2. CASE Accept(c, t, got)
  BY <1>1, <1>2 DEF Accept, Control, TypeOK
<1>3. CASE Refuse(c, t, got)
  BY <1>1, <1>3 DEF Refuse, Control, TypeOK, Dead
<1>4. CASE FailCall(c, t, got)
  BY <1>4 DEF FailCall, upstream, Null
<1> QED
  BY <1>2, <1>3, <1>4 DEF Outcome

LEMMA UpstreamSound ==
  ASSUME Control, NEW c \in Conn, UpstreamStep(c)
  PROVE  Keeps /\ Local(c)
<1>0. PICK got \in Answers(c) :
        /\ Outcome(c, flight[c].tok, got)
        /\ flight' = [flight EXCEPT ![c].pc = "settling", ![c].got = got]
  BY DEF UpstreamStep
<1>1. /\ flight[c].pc = "posting" /\ flight'[c].pc = "settling"
      /\ flight'[c].tok = flight[c].tok /\ flight'[c].want = flight[c].want
      /\ flight'[c].by = flight[c].by /\ flight'[c].kind = flight[c].kind
      /\ flight'[c].got = got
      /\ \A d \in Conn : d # c => flight'[d] = flight[d]
      /\ UNCHANGED <<row, rotated, stray, job>>
  BY <1>0 DEF UpstreamStep, Control, TypeOK, Flight
<1>2. \A d \in Conn : d # c => SameData(d)
  <2>1. \A d \in Conn : d # c => newest'[d] = newest[d] /\ alive'[d] = alive[d]
    BY <1>0, OutcomeIs
  <2> QED
    BY <1>1, <2>1 DEF SameData
<1>3. \A d \in Conn : mishap[d] \subseteq mishap'[d]
  BY <1>0, OutcomeIs
<1>4. \A i \in Job : Only(c, i)
  BY <1>1 DEF Only
<1>5. ASSUME Good(c), Spared(c)
      PROVE  Good(c)'
  <2>1. /\ FlightGood(c) /\ ~Rotating(c) /\ alive[c] /\ flight[c].tok = newest[c]
        /\ newest[c] \in Nat
    BY <1>1, <1>5 DEF Good, FlightGood, Rotating, Control, TypeOK, Token
  <2>2. \A i \in Job : At(i, c) => job[i].pc \notin {"answered", "leaving"}
    BY <1>1, <2>1, LaneOfOne DEF FlightGood, At, InTurn
  <2>3. \A i \in Job : At(i, c) => JobGood(c, i) /\ job[i].tok \in Nat
    BY <1>5 DEF Good, Control, TypeOK, JobState
  <2>4. /\ alive'[c]
        /\ \/ newest'[c] = newest[c] + 1 /\ got = Ok(newest[c] + 1)
           \/ newest'[c] = newest[c] /\ got = Null
    BY <1>0, <1>5, <2>1, OutcomeIs
  <2>5. CASE newest'[c] = newest[c] + 1 /\ got = Ok(newest[c] + 1)
    <3>1. Rotating(c)' /\ FlightGood(c)'
      BY <1>1, <2>1, <2>5 DEF FlightGood, Rotating, Ok, At
    <3>2. ASSUME NEW i \in Job, At(i, c)'
          PROVE  JobGood(c, i)'
      <4>1. At(i, c) /\ JobGood(c, i) /\ job[i].tok \in Nat
        BY <1>1, <2>3, <3>2 DEF At
      <4>2. job[i].pc \notin {"answered", "leaving"} /\ rotated[c] = {}
        BY <2>1, <2>2, <4>1 DEF FlightGood
      <4> QED
        BY <1>1, <2>1, <2>5, <4>1, <4>2 DEF JobGood
    <3> QED
      BY <1>1, <2>1, <2>4, <3>1, <3>2 DEF Good, FlightGood
  <2>6. CASE newest'[c] = newest[c] /\ got = Null
    <3>1. ~Rotating(c)' /\ FlightGood(c)'
      BY <1>1, <2>1, <2>6 DEF FlightGood, Rotating, Null, At
    <3>2. ASSUME NEW i \in Job, At(i, c)'
          PROVE  JobGood(c, i)'
      <4>1. At(i, c) /\ JobGood(c, i) /\ (Behind(c)' <=> Behind(c))
        BY <1>1, <2>3, <2>6, <3>2 DEF At, Behind
      <4> QED
        BY <1>1, <2>6, <3>1, <4>1 DEF JobGood
    <3> QED
      BY <1>1, <2>1, <2>4, <2>6, <3>1, <3>2 DEF Good, FlightGood
  <2> QED
    BY <2>4, <2>5, <2>6
<1>6. Good(c) /\ Spared(c) => Good(c)'
  BY <1>5
<1> QED
  BY <1>2, <1>3, <1>4, <1>6, Elsewhere

\* Where nobody bypasses getAccessToken, there are no direct calls.
LEMMA DirectCallSound ==
  ASSUME Control, NEW j \in Job, DirectCall(j)
  PROVE  Keeps /\ Local(job[j].conn)
<1>0. PICK e \in Conn : e = job[j].conn
  BY DEF Control, Attached, DirectCall
<1>1. e \in Direct
  BY <1>0 DEF DirectCall, Bypasses
<1>2. UNCHANGED <<newest, alive, row, rotated, flight, stray, mishap>>
  BY DEF DirectCall, upstream, memory
<1>3. \A i \in Job : Only(e, i)
  BY <1>0 DEF DirectCall, Only, Control, TypeOK, JobState
<1> QED
  BY <1>0, <1>1, <1>2, <1>3, Elsewhere DEF SameData

LEMMA DirectAnswerSound ==
  ASSUME Control, NEW j \in Job, DirectAnswer(j)
  PROVE  Keeps /\ Local(job[j].conn)
<1>0. PICK e \in Conn : e = job[j].conn
  BY DEF Control, Attached, DirectAnswer
<1>1. e \in Direct
  BY <1>0 DEF DirectAnswer, Bypasses, Bypassing, Control
<1>2. PICK got \in Answers(e) :
        /\ Outcome(e, job[j].tok, got)
        /\ job' = [job EXCEPT ![j].pc = "answered", ![j].got = got]
  BY <1>0 DEF DirectAnswer
<1>3. UNCHANGED <<row, rotated, flight, stray>>
  BY DEF DirectAnswer, memory
<1>4. \A i \in Job : Only(e, i)
  BY <1>0, <1>2 DEF Only, Control, TypeOK, JobState
<1>5. \A d \in Conn : d # e => SameData(d)
  BY <1>2, <1>3, OutcomeIs DEF SameData
<1>6. \A d \in Conn : mishap[d] \subseteq mishap'[d]
  BY <1>2, OutcomeIs
<1> QED
  BY <1>0, <1>1, <1>4, <1>5, <1>6, Elsewhere

LEMMA StrayAnswerSound ==
  ASSUME Control, NEW c \in Conn, NEW t \in stray[c], StrayAnswer(c, t)
  PROVE  Keeps /\ Local(c)
<1>1. c \in Direct
  BY DEF Control, Bypassing
<1>2. PICK got \in Answers(c) : Outcome(c, t, got)
  BY DEF StrayAnswer
<1>3. /\ UNCHANGED <<row, rotated, flight, job>>
      /\ \A d \in Conn : d # c => stray'[d] = stray[d]
  BY DEF StrayAnswer, Control, TypeOK
<1>4. \A d \in Conn : d # c => SameData(d)
  BY <1>2, <1>3, OutcomeIs DEF SameData
<1>5. \A d \in Conn : mishap[d] \subseteq mishap'[d]
  BY <1>2, OutcomeIs
<1>6. \A i \in Job : Only(c, i)
  BY <1>3 DEF Only
<1> QED
  BY <1>1, <1>4, <1>5, <1>6, Elsewhere

LEMMA CrashSound ==
  ASSUME Control, Crash
  PROVE  Keeps
BY DEF Keeps, Spared, Crash, MayHappen, Control, TypeOK

LEMMA TimeOutSound ==
  ASSUME Control, NEW j \in Job, TimeOut(j)
  PROVE  Keeps /\ Local(job[j].conn)
<1>0. PICK e \in Conn : e = job[j].conn
  BY DEF Control, Attached, TimeOut
<1>1. ~Spared(e) /\ \A d \in Conn : mishap[d] \subseteq mishap'[d]
  BY <1>0 DEF TimeOut, Spared, Mishap, MayHappen, Control, TypeOK
<1>2. /\ \A i \in Job : i # j => job'[i] = job[i]
      /\ job'[j].pc = "idle" \/ job'[j].conn = e
  BY <1>0 DEF Control, TypeOK, TimeOut, Retry, Done, Idle, JobState
<1>3. ASSUME NEW d \in Conn, d # e
      PROVE  SameData(d)
  <2>1. flight[d].by # j
    BY <1>0, <1>3 DEF Control, StarterStays
  <2>2. flight'[d] = flight[d]
    BY <2>1 DEF TimeOut, Retry
  <2>3. stray'[d] = stray[d]
    BY <1>0, <1>3 DEF TimeOut, Control, TypeOK
  <2> QED
    BY <2>2, <2>3 DEF SameData, TimeOut, upstream
<1>4. \A i \in Job : Only(e, i)
  BY <1>0, <1>2 DEF Only
<1> QED
  BY <1>0, <1>1, <1>3, <1>4, Elsewhere

\* Where nothing goes wrong a write takes effect.
LEMMA WriteLands ==
  ASSUME Control, NEW c \in Conn, NEW r, Write(c, r)
  PROVE  /\ \A d \in Conn : mishap[d] \subseteq mishap'[d]
         /\ \A d \in Conn : d # c => row'[d] = row[d]
         /\ Spared(c) => row'[c] = r /\ mishap' = mishap
BY DEF Write, Spared, Mishap, MayHappen, Control, TypeOK

LEMMA StoredIs ==
  ASSUME Control, NEW c \in Conn, NEW t
  PROVE  Stored(c, t).tok = t /\ Stored(c, t).fresh
BY DEF Stored, Control, TypeOK, Row

\* A caller that leaves with the newest token in the row.
LEMMA LeavesWritten ==
  ASSUME Control, NEW j \in Job, NEW e \in Conn, e = job[j].conn, Good(e), At(j, e),
         newest'[e] = newest[e], alive'[e] = alive[e],
         rotated'[e] = rotated[e], flight'[e] = flight[e],
         row'[e].tok = newest[e],
         rotated[e] = {} \/ row'[e].fresh,
         \A i \in Job : i # j => job'[i] = job[i],
         job'[j].pc = "idle",
         flight[e].pc # "none" => ~Rotating(e) /\ flight[e].by # j
  PROVE  Good(e)'
<1>1. ~Behind(e)'
  BY DEF Behind
<1>2. Rotating(e)' <=> Rotating(e)
  BY DEF Rotating
<1>3. \A i \in Job : At(i, e)' <=> i # j /\ At(i, e)
  BY DEF At
<1>4. flight[e].pc # "none" => FlightGood(e)'
  BY <1>2, <1>3 DEF Good, FlightGood
<1>5. ASSUME NEW i \in Job, At(i, e)'
      PROVE  JobGood(e, i)'
  <2>1. i # j /\ JobGood(e, i)
    BY <1>3, <1>5 DEF Good
  <2> QED
    BY <1>1, <1>2, <2>1 DEF JobGood
<1> QED
  BY <1>1, <1>4, <1>5 DEF Good

LEMMA TakeTokensSound ==
  ASSUME Control, NEW j \in Job, TakeTokens(j)
  PROVE  Keeps /\ Local(job[j].conn)
<1>0. PICK e \in Conn : e = job[j].conn
  BY DEF Control, Attached, TakeTokens
<1>1. /\ job[j].pc = "answered" /\ job[j].got.is = "ok"
      /\ At(j, e)
      /\ UNCHANGED <<newest, alive, rotated, flight, stray>>
  BY <1>0 DEF TakeTokens, At, upstream, memory
<1>2. /\ \A i \in Job : i # j => job'[i] = job[i]
      /\ job'[j].pc = "idle"
  BY DEF Control, TypeOK, TakeTokens, Done, Idle
<1>3. CASE job[j].ran
  <2>1. row' = row /\ mishap' = mishap
    BY <1>3 DEF TakeTokens
  <2>2. ASSUME Good(e)
        PROVE  Good(e)'
    <3>1. Good(e) /\ JobGood(e, j) /\ ~Behind(e) /\ flight[e].pc = "none"
      BY <1>1, <1>3, <2>2 DEF Good, JobGood, FlightGood
    <3> QED
      BY <1>0, <1>1, <1>2, <2>1, <3>1, LeavesWritten DEF Behind
  <2>3. \A d \in Conn : SameData(d)
    BY <1>1, <2>1 DEF SameData
  <2>4. \A i \in Job : Only(e, i)
    BY <1>0, <1>2 DEF Only
  <2> QED
    BY <1>0, <2>1, <2>2, <2>3, <2>4, Elsewhere
<1>4. CASE ~job[j].ran
  <2>1. Write(e, Stored(e, job[j].got.tok))
    BY <1>0, <1>4 DEF TakeTokens
  <2>2. ASSUME Good(e), Spared(e)
        PROVE  Good(e)'
    <3>1. Good(e) /\ JobGood(e, j) /\ job[j].got.tok = newest[e] /\ flight[e].pc = "none"
      BY <1>1, <2>2 DEF Good, JobGood, FlightGood
    <3>2. row'[e].tok = newest[e] /\ row'[e].fresh
      BY <2>1, <2>2, <3>1, WriteLands, StoredIs
    <3> QED
      BY <1>0, <1>1, <1>2, <3>1, <3>2, LeavesWritten
  <2>3. \A d \in Conn : d # e => SameData(d)
    BY <1>1, <2>1, WriteLands DEF SameData
  <2>4. \A i \in Job : Only(e, i)
    BY <1>0, <1>2 DEF Only
  <2>5. \A d \in Conn : mishap[d] \subseteq mishap'[d]
    BY <2>1, WriteLands
  <2> QED
    BY <1>0, <2>2, <2>3, <2>4, <2>5, Elsewhere
<1> QED
  BY <1>3, <1>4

LEMMA UsageLeavesSound ==
  ASSUME Control, NEW j \in Job, UsageLeaves(j)
  PROVE  Keeps /\ Local(job[j].conn)
<1>0. PICK e \in Conn : e = job[j].conn
  BY DEF Control, Attached, UsageLeaves
<1>1. /\ job[j].pc = "leaving" /\ At(j, e)
      /\ UNCHANGED <<newest, alive, rotated, flight, stray>>
  BY <1>0 DEF UsageLeaves, At, upstream
<1>2. /\ \A i \in Job : i # j => job'[i] = job[i]
      /\ job'[j].pc = "idle"
  BY DEF Control, TypeOK, UsageLeaves, Done, Idle
<1>3. flight[e].pc \notin {"posting", "settling"}
  BY <1>0, <1>1, LaneOfOne DEF InTurn
<1>4. \A i \in Job : Only(e, i)
  BY <1>0, <1>2 DEF Only
<1>5. CASE job[j].got.is # "ok"
  <2>1. row' = row /\ mishap' = mishap
    BY <1>5 DEF UsageLeaves
  <2>2. \A d \in Conn : SameData(d)
    BY <1>1, <2>1 DEF SameData
  <2>3. ASSUME Good(e)
        PROVE  Good(e)'
    <3>1. Good(e)
      BY <2>3
    <3>2. flight[e].pc # "none" => flight[e].by # j /\ job'[j].pc # "answered"
      BY <1>1, <1>2, <3>1 DEF Good, FlightGood
    <3>3. ~At(j, e)' /\ ~Writer(j)
      BY <1>1, <1>2 DEF At, Writer
    <3> QED
      BY <1>2, <2>2, <3>1, <3>2, <3>3, CallerMoves
  <2> QED
    BY <1>0, <1>4, <2>1, <2>2, <2>3, Elsewhere
<1>6. CASE job[j].got.is = "ok"
  <2>1. Write(e, Stored(e, job[j].got.tok))
    BY <1>0, <1>6 DEF UsageLeaves
  <2>2. ASSUME Good(e), Spared(e)
        PROVE  Good(e)'
    <3>1. Good(e) /\ JobGood(e, j) /\ job[j].got.tok = newest[e]
      BY <1>1, <1>6, <2>2 DEF Good, JobGood
    <3>2. row'[e].tok = newest[e] /\ row'[e].fresh
      BY <2>1, <2>2, <3>1, WriteLands, StoredIs
    <3>3. flight[e].pc # "none" => ~Rotating(e) /\ flight[e].by # j
      BY <1>1, <1>3, <3>1 DEF Good, FlightGood, Rotating
    <3> QED
      BY <1>0, <1>1, <1>2, <3>1, <3>2, <3>3, LeavesWritten
  <2>3. \A d \in Conn : d # e => SameData(d)
    BY <1>1, <2>1, WriteLands DEF SameData
  <2>4. \A d \in Conn : mishap[d] \subseteq mishap'[d]
    BY <2>1, WriteLands
  <2> QED
    BY <1>0, <1>4, <2>2, <2>3, <2>4, Elsewhere
<1> QED
  BY <1>5, <1>6

\* No caller of a good connection is told that the token is dead.
LEMMA ReactiveGivesUpSound ==
  ASSUME Control, NEW j \in Job, ReactiveGivesUp(j)
  PROVE  Keeps /\ Local(job[j].conn)
<1>0. PICK e \in Conn : e = job[j].conn
  BY DEF Control, Attached, ReactiveGivesUp
<1>1. /\ job[j].pc = "answered" /\ job[j].got = Dead /\ At(j, e)
      /\ UNCHANGED <<newest, alive, rotated, flight, stray>>
  BY <1>0 DEF ReactiveGivesUp, At, upstream, memory
<1>2. /\ \A i \in Job : i # j => job'[i] = job[i]
      /\ job'[j].pc = "idle"
  BY DEF Control, TypeOK, ReactiveGivesUp, Done, Idle
<1>3. /\ \A d \in Conn : mishap[d] \subseteq mishap'[d]
      /\ \A d \in Conn : d # e => row'[d] = row[d]
  <2>1. \/ UNCHANGED <<row, mishap>>
        \/ Write(e, [row[e] EXCEPT !.active = FALSE])
        \/ row' = [row EXCEPT ![e].active = FALSE] /\ Mishap(e, "db")
    BY <1>0 DEF ReactiveGivesUp
  <2>2. CASE UNCHANGED <<row, mishap>>
    BY <2>2
  <2>3. CASE Write(e, [row[e] EXCEPT !.active = FALSE])
    BY <2>3, WriteLands
  <2>4. CASE row' = [row EXCEPT ![e].active = FALSE] /\ Mishap(e, "db")
    BY <2>4 DEF Mishap, MayHappen, Control, TypeOK
  <2> QED
    BY <2>1, <2>2, <2>3, <2>4
<1>4. ~Good(e)
  BY <1>1 DEF Good, JobGood, Dead
<1>5. \A d \in Conn : d # e => SameData(d)
  BY <1>1, <1>3 DEF SameData
<1>6. \A i \in Job : Only(e, i)
  BY <1>0, <1>2 DEF Only
<1> QED
  BY <1>0, <1>3, <1>4, <1>5, <1>6, Elsewhere


LEMMA SweepGivesUpSound ==
  ASSUME Control, NEW j \in Job, SweepGivesUp(j)
  PROVE  Keeps /\ Local(job[j].conn)
<1>0. PICK e \in Conn : e = job[j].conn
  BY DEF Control, Attached, SweepGivesUp
<1>1. /\ job[j].pc = "answered" /\ job[j].got = Dead /\ At(j, e)
      /\ UNCHANGED <<newest, alive, rotated, flight, stray>>
  BY <1>0 DEF SweepGivesUp, At, upstream, memory
<1>2. /\ \A i \in Job : i # j => job'[i] = job[i]
      /\ job'[j].pc = "idle"
  BY DEF Control, TypeOK, SweepGivesUp, Done, Idle
<1>3. /\ \A d \in Conn : mishap[d] \subseteq mishap'[d]
      /\ \A d \in Conn : d # e => row'[d] = row[d]
  <2>1. \/ UNCHANGED <<row, mishap>>
        \/ Write(e, [row[e] EXCEPT !.active = FALSE, !.tok = 0])
    BY <1>0 DEF SweepGivesUp
  <2>2. CASE UNCHANGED <<row, mishap>>
    BY <2>2
  <2>3. CASE Write(e, [row[e] EXCEPT !.active = FALSE, !.tok = 0])
    BY <2>3, WriteLands
  <2> QED
    BY <2>1, <2>2, <2>3
<1>4. ~Good(e)
  BY <1>1 DEF Good, JobGood, Dead
<1>5. \A d \in Conn : d # e => SameData(d)
  BY <1>1, <1>3 DEF SameData
<1>6. \A i \in Job : Only(e, i)
  BY <1>0, <1>2 DEF Only
<1> QED
  BY <1>0, <1>3, <1>4, <1>5, <1>6, Elsewhere


LEMMA EnqueueSound ==
  ASSUME Control, NEW j \in Job, Enqueue(j)
  PROVE  Keeps /\ Local(job[j].conn)
<1>0. PICK e \in Conn : e = job[j].conn
  BY DEF Control, Attached, CanStart, Enqueue
<1>1. /\ job[j].pc = "ready" /\ flight[e].pc = "none" /\ Quiet /\ At(j, e)
      /\ UNCHANGED <<newest, alive, row, rotated, stray>>
  BY <1>0 DEF Enqueue, CanStart, At, upstream
<1>2. PICK t \in {job[j].tok, row[e].tok} :
        /\ \/ /\ ~(RowIsNewer(j) /\ row[e].fresh)
              /\ t = IF RowIsNewer(j) THEN row[e].tok ELSE job[j].tok
              /\ UNCHANGED mishap
           \/ RowIsNewer(j) /\ t = job[j].tok /\ Mishap(e, "db")
        /\ flight' = [flight EXCEPT ![e] = FlightOf(j, t)]
        /\ job' = [job EXCEPT ![j].pc = "waiting", ![j].tok = t]
  BY <1>0 DEF Enqueue
<1>3. t \in Nat
  BY <1>2 DEF Control, TypeOK, JobState, Row
<1>4. /\ FlightOf(j, t).pc = "queued" /\ FlightOf(j, t).tok = t
      /\ FlightOf(j, t).by = j /\ FlightOf(j, t).kind = job[j].kind
      /\ FlightOf(j, t).got = Null
      /\ FlightOf(j, t).want # 0 => job[j].kind = "reactive"
  BY DEF FlightOf, NoFlight
<1>5. /\ \A i \in Job : i # j => job'[i] = job[i]
      /\ job'[j].pc = "waiting" /\ job'[j].conn = e /\ job'[j].tok = t
      /\ job'[j].kind = job[j].kind /\ job'[j].got = job[j].got /\ job'[j].ran = job[j].ran
  BY <1>0, <1>2, <1>3 DEF Control, TypeOK, JobState
<1>6. /\ \A d \in Conn : d # e => flight'[d] = flight[d]
      /\ flight'[e] = FlightOf(j, t)
  BY <1>2 DEF Control, TypeOK
<1>7. /\ \A d \in Conn : mishap[d] \subseteq mishap'[d]
      /\ Spared(e) => ~Mishap(e, "db")
  BY <1>2 DEF Spared, Mishap, MayHappen, Control, TypeOK
<1>8. ASSUME Good(e), Spared(e)
      PROVE  Good(e)'
  <2>1. row[e].tok = newest[e] /\ (rotated[e] # {} => row[e].fresh)
    BY <1>1, <1>8, QuietRow DEF Behind
  <2>2. JobGood(e, j) /\ newest[e] # 0 /\ newest[e] \in Nat
    BY <1>1, <1>8 DEF Good, Control, TypeOK, Token
  <2>3. ~(RowIsNewer(j) /\ row[e].fresh) /\ t = IF RowIsNewer(j) THEN row[e].tok ELSE job[j].tok
    BY <1>2, <1>7, <1>8
  <2>4. t = newest[e] /\ rotated[e] = {}
    <3>1. CASE RowIsNewer(j)
      BY <2>1, <2>3, <3>1
    <3>2. CASE ~RowIsNewer(j)
      BY <1>0, <1>1, <2>1, <2>2, <2>3, <3>2 DEF RowIsNewer, JobGood
    <3> QED
      BY <3>1, <3>2
  <2>5. ~Rotating(e)' /\ ~Behind(e)'
    BY <1>1, <1>4, <1>6, <2>1, <2>4 DEF Rotating, Behind
  <2>6. \A i \in Job : At(i, e)' => At(i, e)
    BY <1>1, <1>5 DEF At
  <2>7. FlightGood(e)'
    <3>1. \A i \in Job : At(i, e)' => job'[i].pc # "answered"
      BY <1>1, <1>5 DEF Quiet
    <3> QED
      BY <1>1, <1>4, <1>5, <1>6, <2>1, <2>4, <2>5, <3>1 DEF FlightGood, Null
  <2>8. ASSUME NEW i \in Job, At(i, e)'
        PROVE  JobGood(e, i)'
    <3>1. CASE i = j
      BY <1>1, <1>5, <2>2, <2>4, <2>5, <3>1 DEF JobGood
    <3>2. CASE i # j
      <4>1. JobGood(e, i)
        BY <1>8, <2>6, <2>8 DEF Good
      <4> QED
        BY <1>1, <1>5, <2>5, <3>2, <4>1 DEF JobGood
    <3> QED
      BY <3>1, <3>2
  <2> QED
    BY <1>1, <1>4, <1>6, <1>8, <2>4, <2>7, <2>8 DEF Good
<1>9. \A d \in Conn : d # e => SameData(d)
  BY <1>1, <1>6 DEF SameData
<1>10. \A i \in Job : Only(e, i)
  BY <1>0, <1>5 DEF Only
<1>11. Good(e) /\ Spared(e) => Good(e)'
  BY <1>8
<1> QED
  BY <1>0, <1>7, <1>9, <1>10, <1>11, Elsewhere

\* What the end of a refresh does to the row and the other connections.
LEMMA FinishRow ==
  ASSUME Control, NEW e \in Conn, NEW f \in Flight, NEW got \in Result,
         NEW callers \in SUBSET Job, Finish(e, f, got, callers)
  PROVE  /\ \A d \in Conn : mishap[d] \subseteq mishap'[d]
         /\ \A d \in Conn : d # e => row'[d] = row[d] /\ flight'[d] = flight[d]
         /\ flight'[e] = NoFlight
         /\ Spared(e) => mishap' = mishap
         /\ Spared(e) /\ Persists(e, f, got)
               => row'[e].tok = got.tok /\ row'[e].fresh
         /\ ~Persists(e, f, got) => row' = row
<1>1. flight' = [flight EXCEPT ![e] = NoFlight]
  BY DEF Finish
<1>2. CASE Persists(e, f, got)
  <2>1. Write(e, Stored(e, got.tok))
    BY <1>2 DEF Finish, Persists
  <2> QED
    BY <1>1, <1>2, <2>1, WriteLands, StoredIs DEF Control, TypeOK
<1>3. CASE ~Persists(e, f, got)
  <2>1. row' = row /\ mishap' = mishap
    BY <1>3 DEF Finish, Persists
  <2> QED
    BY <1>1, <1>3, <2>1 DEF Control, TypeOK
<1> QED
  BY <1>2, <1>3

LEMMA FinishGood ==
  ASSUME Control, NEW e \in Conn, NEW f \in Flight, NEW got \in Result,
         NEW callers \in SUBSET Job, Finish(e, f, got, callers),
         Good(e), Spared(e),
         newest'[e] = newest[e], alive'[e] = alive[e],
         \A t \in rotated'[e] : newest[e] = t + 1,
         got.is # "dead",
         got.is = "ok" => got.tok = newest[e],
         got.is = "null" => rotated'[e] = {} /\ ~Behind(e)',
         f.kind = "usage" => ~Behind(e)',
         f.want # 0 => f.kind = "reactive",
         f.by \in callers, job[f.by].kind = f.kind,
         \A i \in callers : At(i, e),
         \A i \in Job : At(i, e) => job[i].pc # "answered",
         \A i \in Job \ callers : At(i, e) /\ job[i].pc \in {"outer", "ready"}
                                  /\ job[i].tok = newest[e] => rotated'[e] = {}
  PROVE  Good(e)'
<1>1. /\ flight'[e] = NoFlight /\ mishap' = mishap
      /\ Persists(e, f, got) => row'[e].tok = got.tok /\ row'[e].fresh
  BY FinishRow
<1>2. ~Rotating(e)' /\ flight'[e].pc = "none"
  BY <1>1 DEF Rotating, NoFlight
<1>3. Told(e, f, got) = got
  BY <1>1 DEF Told
<1>4. \A k : Seen(e, k, got) = got
  BY DEF Seen, Dead
<1>5. Persists(e, f, got) => ~Behind(e)' /\ got.is = "ok" /\ f.kind # "usage"
  BY <1>1 DEF Behind, Persists
<1>6. got.is \in {"ok", "null"}
  BY DEF Result
<1>7. ASSUME NEW i \in Job
      PROVE  /\ job'[i].conn = job[i].conn /\ job'[i].kind = job[i].kind
             /\ job'[i].pc = IF i \in callers THEN "answered" ELSE job[i].pc
             /\ job'[i].got = IF i \in callers THEN got ELSE job[i].got
             /\ Persists(e, f, got) /\ i = f.by => job'[i].ran /\ job'[i].tok = got.tok
             /\ ~(Persists(e, f, got) /\ i = f.by)
                   => (job'[i].ran <=> job[i].ran) /\ job'[i].tok = job[i].tok
  <2>1. TypeOK
    BY DEF Control
  <2>2. /\ job'[i].conn = job[i].conn /\ job'[i].kind = job[i].kind
        /\ job'[i].pc = IF i \in callers THEN "answered" ELSE job[i].pc
        /\ job'[i].got = IF i \in callers THEN Seen(e, job[i].kind, Told(e, f, got))
                         ELSE job[i].got
        /\ Persists(e, f, got) /\ i = f.by => job'[i].ran /\ job'[i].tok = got.tok
        /\ ~(Persists(e, f, got) /\ i = f.by)
              => (job'[i].ran <=> job[i].ran) /\ job'[i].tok = job[i].tok
    BY <2>1, FinishJobs
  <2> QED
    BY <1>3, <1>4, <2>2
<1>8. \A i \in Job : At(i, e)' => At(i, e)
  BY <1>7 DEF At
<1>9. newest[e] \in Nat /\ newest[e] # 0
  BY DEF Control, TypeOK, Token
<1>10. ASSUME NEW i \in Job, At(i, e)'
       PROVE  JobGood(e, i)'
  <2>1. JobGood(e, i) /\ ~job[i].ran
    BY <1>8, <1>10 DEF Good, JobGood
  <2>2. CASE Persists(e, f, got) /\ i = f.by
    BY <1>2, <1>5, <1>7, <1>9, <2>2 DEF JobGood
  <2>3. CASE i \in callers /\ ~(Persists(e, f, got) /\ i = f.by)
    BY <1>2, <1>7, <2>1, <2>3 DEF JobGood
  <2>4. CASE i \notin callers
    BY <1>2, <1>7, <1>8, <1>10, <2>1, <2>4 DEF JobGood
  <2> QED
    BY <2>2, <2>3, <2>4
<1>11. ASSUME Behind(e)'
       PROVE  Pending(e)'
  <2>1. f.by \in Job /\ At(f.by, e) /\ ~job[f.by].ran
    BY DEF Good, JobGood
  <2>2. ~Persists(e, f, got) /\ f.kind = "reactive" /\ got.is = "ok"
    BY <1>5, <1>6, <1>11 DEF Persists, GuardSkips
  <2>3. Writer(f.by)' /\ At(f.by, e)'
    BY <1>7, <2>1, <2>2 DEF Writer, At
  <2> QED
    BY <2>1, <2>3 DEF Pending
<1>12. alive'[e] /\ \A t \in rotated'[e] : newest'[e] = t + 1
  BY DEF Good
<1> QED
  BY <1>2, <1>10, <1>11, <1>12 DEF Good

LEMMA FinishSound ==
  ASSUME Control, NEW e \in Conn, NEW f \in Flight, NEW got \in Result,
         NEW callers \in SUBSET Job, Finish(e, f, got, callers),
         UNCHANGED <<upstream, stray>>, \A d \in Conn : d # e => rotated'[d] = rotated[d],
         \A i \in callers : At(i, e),
         f.by \in Job => job[f.by].conn = e,
         Good(e) /\ Spared(e) => Good(e)'
  PROVE  Keeps /\ Local(e)
<1>1. /\ \A d \in Conn : mishap[d] \subseteq mishap'[d]
      /\ \A d \in Conn : d # e => row'[d] = row[d] /\ flight'[d] = flight[d]
  BY FinishRow
<1>2. \A d \in Conn : d # e => SameData(d)
  BY <1>1 DEF SameData, upstream
<1>3. ASSUME NEW i \in Job
      PROVE  Only(e, i)
  <2>1. TypeOK
    BY DEF Control
  <2>2. /\ job'[i].conn = job[i].conn
        /\ i # f.by /\ i \notin callers => job'[i] = job[i]
    BY <2>1, FinishJobs
  <2> QED
    BY <2>2 DEF Only, At
<1> QED
  BY <1>1, <1>2, <1>3, Elsewhere

LEMMA RotationHitSound ==
  ASSUME Control, NEW j \in Job, RotationHit(j)
  PROVE  Keeps /\ Local(job[j].conn)
<1>0. PICK e \in Conn : e = job[j].conn
  BY DEF Control, Attached, CanStart, RotationHit
<1>1. /\ job[j].pc = "ready" /\ flight[e].pc = "none" /\ Quiet /\ At(j, e)
      /\ UNCHANGED <<newest, alive, rotated, stray>>
      /\ job[j].tok \in Nat /\ row[e].tok \in Nat
  BY <1>0 DEF RotationHit, CanStart, At, upstream, Control, TypeOK, JobState, Row
<1>2. PICK f \in Flight : f = FlightOf(j, job[j].tok)
  BY <1>1, FlightOfType DEF Control
<1>3. f.by = j /\ f.kind = job[j].kind /\ (f.want # 0 => f.kind = "reactive")
  BY <1>2 DEF FlightOf, NoFlight
<1>4. PICK got \in Result : got = Ok(job[j].tok + 1)
  BY <1>0, <1>1, ResultTypes
<1>5. Finish(e, f, got, {j})
  BY <1>0, <1>2, <1>4 DEF RotationHit
<1>6. got.is = "ok" /\ got.tok = job[j].tok + 1
  BY <1>4 DEF Ok
<1>7. ASSUME Good(e), Spared(e)
      PROVE  Good(e)'
  <2>1. ~Behind(e)
    BY <1>1, <1>7, QuietRow
  <2>2. got.tok = newest[e]
    BY <1>0, <1>1, <1>6, <1>7 DEF RotationHit, Good
  <2>3. f.kind = "usage" => ~Behind(e)'
    <3>1. ~Persists(e, f, got) => row' = row
      BY <1>5, FinishRow
    <3>2. f.kind = "usage" => ~Persists(e, f, got)
      BY DEF Persists
    <3> QED
      BY <1>1, <2>1, <3>1, <3>2 DEF Behind
  <2>4. \A t \in rotated'[e] : newest[e] = t + 1
    BY <1>1, <1>7 DEF Good
  <2>5. \A i \in Job : At(i, e) => job[i].pc # "answered"
    BY <1>1 DEF Quiet
  <2>6. \A i \in Job : At(i, e) /\ job[i].pc \in {"outer", "ready"} /\ job[i].tok = newest[e]
                       => rotated'[e] = {}
    BY <1>1, <1>7 DEF Good, JobGood
  <2>7. {j} \in SUBSET Job
    OBVIOUS
  <2> QED
    BY <1>1, <1>3, <1>5, <1>6, <1>7, <2>2, <2>3, <2>4, <2>5, <2>6, <2>7, FinishGood
<1>8. Good(e) /\ Spared(e) => Good(e)'
  BY <1>7
<1>9. {j} \in SUBSET Job
  OBVIOUS
<1>10. UNCHANGED <<upstream, stray>> /\ \A i \in {j} : At(i, e)
  BY <1>1 DEF upstream
<1>11. f.by \in Job => job[f.by].conn = e
  BY <1>0, <1>3
<1>12. \A d \in Conn : d # e => rotated'[d] = rotated[d]
  BY <1>1
<1> QED
  BY <1>0, <1>5, <1>8, <1>9, <1>10, <1>11, <1>12, FinishSound


LEMMA UseRowSound ==
  ASSUME Control, NEW j \in Job, UseRow(j)
  PROVE  Keeps /\ Local(job[j].conn)
<1>0. PICK e \in Conn : e = job[j].conn
  BY DEF Control, Attached, CanStart, UseRow
<1>1. /\ job[j].pc = "ready" /\ flight[e].pc = "none" /\ Quiet /\ At(j, e)
      /\ UNCHANGED <<newest, alive, rotated, stray>>
      /\ job[j].tok \in Nat /\ row[e].tok \in Nat
  BY <1>0 DEF UseRow, CanStart, At, upstream, Control, TypeOK, JobState, Row
<1>2. PICK f \in Flight : f = FlightOf(j, job[j].tok)
  BY <1>1, FlightOfType DEF Control
<1>3. f.by = j /\ f.kind = job[j].kind /\ (f.want # 0 => f.kind = "reactive")
  BY <1>2 DEF FlightOf, NoFlight
<1>4. PICK got \in Result : got = Ok(row[e].tok)
  BY <1>0, <1>1, ResultTypes
<1>5. Finish(e, f, got, {j})
  BY <1>0, <1>2, <1>4 DEF UseRow
<1>6. got.is = "ok" /\ got.tok = row[e].tok
  BY <1>4 DEF Ok
<1>7. ASSUME Good(e), Spared(e)
      PROVE  Good(e)'
  <2>1. ~Behind(e)
    BY <1>1, <1>7, QuietRow
  <2>2. got.tok = newest[e]
    BY <1>6, <2>1 DEF Behind
  <2>3. f.kind = "usage" => ~Behind(e)'
    <3>1. ~Persists(e, f, got) => row' = row
      BY <1>5, FinishRow
    <3>2. f.kind = "usage" => ~Persists(e, f, got)
      BY DEF Persists
    <3> QED
      BY <1>1, <2>1, <3>1, <3>2 DEF Behind
  <2>4. \A t \in rotated'[e] : newest[e] = t + 1
    BY <1>1, <1>7 DEF Good
  <2>5. \A i \in Job : At(i, e) => job[i].pc # "answered"
    BY <1>1 DEF Quiet
  <2>6. \A i \in Job : At(i, e) /\ job[i].pc \in {"outer", "ready"} /\ job[i].tok = newest[e]
                       => rotated'[e] = {}
    BY <1>1, <1>7 DEF Good, JobGood
  <2>7. {j} \in SUBSET Job
    OBVIOUS
  <2> QED
    BY <1>1, <1>3, <1>5, <1>6, <1>7, <2>2, <2>3, <2>4, <2>5, <2>6, <2>7, FinishGood
<1>8. Good(e) /\ Spared(e) => Good(e)'
  BY <1>7
<1>9. {j} \in SUBSET Job
  OBVIOUS
<1>10. UNCHANGED <<upstream, stray>> /\ \A i \in {j} : At(i, e)
  BY <1>1 DEF upstream
<1>11. f.by \in Job => job[f.by].conn = e
  BY <1>0, <1>3
<1>12. \A d \in Conn : d # e => rotated'[d] = rotated[d]
  BY <1>1
<1> QED
  BY <1>0, <1>5, <1>8, <1>9, <1>10, <1>11, <1>12, FinishSound


LEMMA SettleSound ==
  ASSUME Control, NEW c \in Conn, Settle(c)
  PROVE  Keeps /\ Local(c)
<1>1. /\ flight[c].pc = "settling"
      /\ UNCHANGED <<upstream, stray>>
      /\ rotated'[c] = IF flight[c].got.is = "ok" THEN rotated[c] \union {flight[c].tok}
                       ELSE rotated[c]
      /\ \A d \in Conn : d # c => rotated'[d] = rotated[d]
  BY DEF Settle, Control, TypeOK
<1>2. PICK f \in Flight : f = flight[c]
  BY DEF Control, TypeOK
<1>3. PICK got \in Result : got = flight[c].got
  BY <1>2 DEF Flight
<1>4. PICK callers \in SUBSET Job : callers = Waiters(c)
  BY DEF Waiters
<1>5. Finish(c, f, got, callers)
  BY <1>2, <1>3, <1>4 DEF Settle
<1>6. \A i \in callers : At(i, c)
  BY <1>4 DEF Waiters, At
<1>7. f.by \in Job => job[f.by].conn = c
  BY <1>2 DEF Control, StarterStays
<1>8. ASSUME Good(c), Spared(c)
      PROVE  Good(c)'
  <2>1. FlightGood(c) /\ newest[c] \in Nat
    BY <1>1, <1>8 DEF Good, Control, TypeOK, Token
  <2>2. Rotating(c) <=> got.is = "ok"
    BY <1>1, <1>3 DEF Rotating
  <2>3. got.is # "dead" /\ (got.is = "ok" => got.tok = newest[c])
    BY <1>3, <2>1, <2>2 DEF FlightGood
  <2>4. f.by \in callers /\ job[f.by].kind = f.kind /\ (f.want # 0 => f.kind = "reactive")
    BY <1>2, <1>4, <1>7, <2>1 DEF FlightGood, Waiters
  <2>5. f.kind # "usage"
    <3>1. f.kind = "usage" => InTurn(f.by)
      BY <1>2, <2>1, <2>4 DEF FlightGood, InTurn
    <3> QED
      BY <1>1, <1>2, <1>7, <2>4, <3>1, LaneOfOne
  <2>6. \A t \in rotated'[c] : newest[c] = t + 1
    BY <1>1, <1>3, <2>1, <2>2 DEF FlightGood
  <2>7. got.is = "null" => rotated'[c] = {} /\ ~Behind(c)'
    <3>1. ~Persists(c, f, got) => row' = row
      BY <1>5, FinishRow
    <3>2. got.is = "null" => ~Persists(c, f, got) /\ ~Rotating(c)
      BY <2>2 DEF Persists
    <3> QED
      BY <1>1, <1>3, <2>1, <3>1, <3>2 DEF FlightGood, Behind, upstream
  <2>8. \A i \in Job : At(i, c) => job[i].pc # "answered"
    BY <2>1 DEF FlightGood
  <2>9. \A i \in Job \ callers : At(i, c) /\ job[i].pc \in {"outer", "ready"}
                                /\ job[i].tok = newest[c] => rotated'[c] = {}
    <3>1. \A i \in Job : At(i, c) /\ job[i].tok = newest[c] => ~Rotating(c)
      BY <1>8 DEF Good, JobGood
    <3> QED
      BY <1>1, <1>3, <2>1, <2>2, <3>1 DEF FlightGood
  <2>10. newest'[c] = newest[c] /\ alive'[c] = alive[c]
    BY <1>1 DEF upstream
  <2> QED
    BY <1>5, <1>6, <1>8, <2>3, <2>4, <2>5, <2>6, <2>7, <2>8, <2>9, <2>10, FinishGood
<1>9. Good(c) /\ Spared(c) => Good(c)'
  BY <1>8
<1> QED
  BY <1>1, <1>5, <1>6, <1>7, <1>9, FinishSound

LEMMA InitSound ==
  ASSUME Init
  PROVE  Sound
BY DEF Init, Sound, Good, Behind, At, NoFlight, Idle

LEMMA NextKeeps ==
  ASSUME Control, [Next]_vars
  PROVE  Keeps
<1>1. ASSUME NEW j \in Job, CallerStep(j) \/ TimeOut(j)
      PROVE  Keeps
  BY <1>1, UsageTurnSound, JoinFlightSound, RotationHitSound, UseRowSound,
     EnqueueSound, TakeTokensSound, ReactiveGivesUpSound, SweepGivesUpSound,
     ReactiveRetriesSound, GoOnSound, UsageAnsweredSound, UsageLeavesSound,
     DirectCallSound, DirectAnswerSound, TimeOutSound DEF CallerStep
<1>2. ASSUME NEW j \in Job, NEW c \in Conn, NEW k \in KindsOf[c], Load(j, c, k)
      PROVE  Keeps
  <2>1. k \in AllKinds
    BY TokenRefreshAssumption
  <2> QED
    BY <1>2, <2>1, LoadSound
<1>3. ASSUME NEW c \in Conn,
             \/ Turn(c) \/ UpstreamStep(c) \/ Settle(c) \/ Age(c)
             \/ \E t \in rotated[c] : RotationExpires(c, t)
             \/ \E t \in stray[c] : StrayAnswer(c, t)
      PROVE  Keeps
  BY <1>3, TurnSound, UpstreamSound, SettleSound, AgeSound, RotationExpiresSound,
     StrayAnswerSound
<1>4. CASE Crash
  BY <1>4, CrashSound
<1>5. CASE UNCHANGED vars
  <2>1. \A c \in Conn : SameData(c)
    BY <1>5 DEF vars, upstream, memory, SameData
  <2>2. job' = job /\ mishap' = mishap
    BY <1>5 DEF vars
  <2> QED
    BY <2>1, <2>2, Frame DEF Keeps
<1> QED
  BY <1>1, <1>2, <1>3, <1>4, <1>5 DEF Next, FlightStep

LEMMA NextSound ==
  ASSUME IInv, [Next]_vars
  PROVE  Sound'
<1>1. Keeps
  BY NextKeeps DEF IInv
<1>2. ASSUME NEW c \in Conn \ Direct, mishap'[c] = {}
      PROVE  Good(c)'
  <2>1. mishap[c] = {} /\ Spared(c)
    BY <1>1, <1>2 DEF Keeps, Spared
  <2> QED
    BY <1>1, <2>1 DEF Keeps, IInv, Sound
<1> QED
  BY <1>2 DEF Sound

\* As long as nothing goes wrong for a connection, who knows which of its
\* tokens, and who is about to write the newest, is as the callers expect.
THEOREM RefreshInvariant == Spec => []IInv
<1>1. Init => IInv
  BY InitControl, InitSound DEF IInv
<1>2. IInv /\ [Next]_vars => IInv'
  BY NextControl, NextSound DEF IInv
<1> QED
  BY <1>1, <1>2, PTL DEF Spec

\* A token family is revoked only after a mishap of this very connection,
\* however many callers overlap: a call at upstream presents the newest token,
\* so upstream has nothing to refuse.  This is so for connections whose refreshes
\* all go through getAccessToken; those of kiro do not, and are excepted.
THEOREM FamilyIsSafe == Spec => []FamilySurvives
<1>1. IInv => FamilySurvives
  BY DEF IInv, Sound, Good, FamilySurvives, Control, TypeOK
<1> QED
  BY <1>1, RefreshInvariant, PTL

\* With nothing in flight for a connection whose refreshes go through
\* getAccessToken, its row holds the newest token.
LEMMA RestingRow ==
  ASSUME IInv, NEW c \in Conn \ Direct, AtRest(c), mishap[c] = {}
  PROVE  row[c].tok = newest[c]
<1>1. Good(c) /\ flight[c].pc = "none"
  BY DEF IInv, Sound, AtRest
<1>2. ~Pending(c)
  BY DEF AtRest, Pending, At, Writer
<1> QED
  BY <1>1, <1>2 DEF Good, Behind
=============================================================================
