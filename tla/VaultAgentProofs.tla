-------------------------- MODULE VaultAgentProofs --------------------------
(***************************************************************************)
(* Proofs about VaultAgent, for any number of requests, actions, replays   *)
(* and items: types, the quota, what the status of an action tells of its  *)
(* executions, their audit, and what the status of a queued item tells of  *)
(* its message.                                                            *)
(***************************************************************************)
EXTENDS VaultAgent, FiniteSetTheorems, TLAPS

(***************************************************************************)
(* Types.                                                                  *)
(***************************************************************************)

LEMMA StartTypes ==
  /\ NoChat \in Chat
  /\ NoReplay \in Replay
  /\ Idle \in Confirmation \union {Idle}
BY DEF NoChat, Chat, NoReplay, Replay

LEMMA MishapType ==
  ASSUME TypeOK, NEW k, Mishap(k)
  PROVE  mishap' \subseteq MishapKinds
BY VaultAssumption DEF TypeOK, Mishap

LEMMA OpenedType ==
  ASSUME TypeOK, NEW i \in Item \union {0}
  PROVE  Opened(i) \in Chat
BY DEF TypeOK, Opened, Chat

LEMMA Answered ==
  ASSUME NEW y \in Replay, NEW ok \in BOOLEAN
  PROVE  [y EXCEPT !.pc = "answered", !.ok = ok] \in Replay
BY DEF Replay

LEMMA Found ==
  ASSUME NEW q \in Confirmation, NEW pc \in Busy, NEW ok \in BOOLEAN
  PROVE  [q EXCEPT !.pc = pc, !.ok = ok] \in Confirmation
BY DEF Confirmation

LEMMA TellType ==
  ASSUME TypeOK, NEW k \in Caller, NEW ok \in BOOLEAN, Tell(k, ok)
  PROVE  sync' \in [Sync -> Replay]
<1>1. CASE k \in Sync /\ sync[k].pc = "waiting"
  <2>1. sync[k] \in Replay
    BY <1>1 DEF TypeOK
  <2>2. [sync[k] EXCEPT !.pc = "answered", !.ok = ok] \in Replay
    BY <2>1, Answered
  <2> QED
    BY <1>1, <2>2 DEF TypeOK, Tell
<1>2. CASE ~(k \in Sync /\ sync[k].pc = "waiting")
  BY <1>2 DEF TypeOK, Tell
<1> QED
  BY <1>1, <1>2

LEMMA SaveType ==
  ASSUME TypeOK, NEW a \in Action, NEW st \in {"confirmed", "executed", "failed", "cancelled"},
         Save(a, st)
  PROVE  /\ status' \in [Action -> {"none", "proposed", "confirmed", "executed", "failed", "cancelled"}]
         /\ mishap' \subseteq MishapKinds
BY MishapType DEF TypeOK, Save

\* A confirmation under way has an action.
LEMMA AtWork ==
  ASSUME TypeOK, NEW r \in Request, request[r].pc # "idle"
  PROVE  request[r] \in Confirmation
BY DEF TypeOK, Idle

LEMMA ChatTypes ==
  ASSUME TypeOK, NEW k \in Caller, UserAsks(k) \/ ChatStep(k) \/ ChatDies(k)
  PROVE  TypeOK'
<1>1. CASE UserAsks(k)
  BY <1>1, OpenedType DEF UserAsks, TypeOK, server, browser
<1>2. CASE Count(k)
  BY <1>2, MishapType DEF Count, TypeOK, server, browser, Chat
<1>3. CASE Refuse(k)
  BY <1>3, TellType, StartTypes DEF Refuse, TypeOK, server
<1>4. CASE Store(k)
  <2>1. sync' \in [Sync -> Replay]
    BY <1>4, TellType DEF Store
  <2>2. mishap' \subseteq MishapKinds
    BY <1>4, MishapType DEF Store, TypeOK
  <2>3. used' \in Nat /\ asked' \in [Item -> Nat]
    BY <1>4 DEF Store, TypeOK
  <2>4. chat' \in [Caller -> Chat]
    BY <1>4 DEF Store, TypeOK, Chat
  <2> QED
    BY <1>4, <2>1, <2>2, <2>3, <2>4 DEF Store, TypeOK
<1>5. CASE StreamEnds(k)
  BY <1>5, StartTypes DEF StreamEnds, TypeOK, browser
<1>6. CASE ChatDies(k)
  BY <1>6, TellType, StartTypes, MishapType DEF ChatDies, TypeOK, server
<1> QED
  BY <1>1, <1>2, <1>3, <1>4, <1>5, <1>6 DEF ChatStep

LEMMA ConfirmTypes ==
  ASSUME TypeOK, NEW r \in Request,
         (\E a \in Action : Confirm(r, a)) \/ ConfirmStep(r) \/ RequestDies(r)
  PROVE  TypeOK'
<1>1. ASSUME NEW a \in Action, Confirm(r, a)
      PROVE  TypeOK'
  BY <1>1 DEF Confirm, TypeOK, browser, Confirmation, Busy
<1>2. CASE Judge(r)
  <2>1. request[r] \in Confirmation
    BY <1>2, AtWork DEF Judge
  <2>2. request' \in [Request -> Confirmation \union {Idle}]
    <3>1. PICK ok \in BOOLEAN :
            request' = [request EXCEPT ![r].pc = "judged", ![r].ok = ok]
      BY <1>2 DEF Judge
    <3> QED
      BY <2>1, <3>1, Found DEF TypeOK, Busy
  <2>3. mishap' \subseteq MishapKinds
    BY <1>2, MishapType DEF Judge, TypeOK
  <2> QED
    BY <1>2, <2>2, <2>3 DEF Judge, TypeOK, browser
<1>3. CASE Reject(r)
  BY <1>3, AtWork, SaveType DEF Reject, Ends, TypeOK, browser, Confirmation
<1>4. CASE MarkConfirmed(r)
  <2>1. request[r] \in Confirmation
    BY <1>4, AtWork DEF MarkConfirmed
  <2>2. request' \in [Request -> Confirmation \union {Idle}]
    BY <1>4, <2>1 DEF MarkConfirmed, Advance, TypeOK, Confirmation, Busy
  <2> QED
    BY <1>4, <2>1, <2>2, SaveType DEF MarkConfirmed, TypeOK, browser, Confirmation
<1>5. CASE Run(r)
  <2>1. request[r] \in Confirmation
    BY <1>5, AtWork DEF Run
  <2>2. request' \in [Request -> Confirmation \union {Idle}]
    BY <1>5, <2>1, Found, ZenonT(40) DEF Run, TypeOK, Busy
  <2>3. runs' \in [Action -> Nat]
    BY <1>5, <2>1 DEF Run, TypeOK, Confirmation
  <2> QED
    BY <1>5, <2>2, <2>3 DEF Run, TypeOK, browser
<1>6. CASE Record(r)
  <2>1. request[r] \in Confirmation
    BY <1>6, AtWork DEF Record
  <2>2. request' \in [Request -> Confirmation \union {Idle}]
    BY <1>6, <2>1 DEF Record, Advance, TypeOK, Confirmation, Busy
  <2> QED
    BY <1>6, <2>1, <2>2, SaveType DEF Record, TypeOK, browser, Confirmation
<1>7. CASE Audit(r)
  <2>1. request[r] \in Confirmation
    BY <1>7, AtWork DEF Audit
  <2>2. audit' \in [Action -> Nat]
    BY <1>7, <2>1 DEF Audit, TypeOK, Confirmation
  <2>3. mishap' \subseteq MishapKinds
    BY <1>7, MishapType DEF Audit, TypeOK
  <2> QED
    BY <1>7, <2>2, <2>3 DEF Audit, Ends, TypeOK, browser
<1>8. CASE RequestDies(r)
  BY <1>8, MishapType DEF RequestDies, Ends, TypeOK, browser
<1> QED
  BY <1>1, <1>2, <1>3, <1>4, <1>5, <1>6, <1>7, <1>8 DEF ConfirmStep

LEMMA SyncTypes ==
  ASSUME TypeOK, NEW s \in Sync, StartSync(s) \/ SyncStep(s) \/ TabCloses(s)
  PROVE  TypeOK'
<1>1. CASE StartSync(s)
  <2>1. Queued \subseteq Item
    BY DEF Queued
  <2>2. [sync[s] EXCEPT !.pc = "next", !.todo = Queued] \in Replay
    BY <2>1 DEF TypeOK, Replay
  <2> QED
    BY <1>1, <2>1, <2>2 DEF StartSync, TypeOK, server
<1>2. CASE Mark(s)
  BY <1>2 DEF Mark, TypeOK, server, Replay
<1>3. CASE Send(s)
  <2>1. sync[s].item \in Item \union {0} /\ s \in Caller
    BY DEF TypeOK, Replay, Caller
  <2> QED
    BY <1>3, <2>1, OpenedType DEF Send, TypeOK, server, Replay
<1>4. CASE CannotSend(s)
  BY <1>4, Answered DEF CannotSend, TypeOK, server
<1>5. CASE TakeAnswer(s)
  BY <1>5, ZenonT(40) DEF TakeAnswer, TypeOK, server, Replay
<1>6. CASE EndSync(s)
  BY <1>6, StartTypes DEF EndSync, TypeOK, server
<1>7. CASE TabCloses(s)
  BY <1>7, StartTypes, MishapType DEF TabCloses, TypeOK, server
<1> QED
  BY <1>1, <1>2, <1>3, <1>4, <1>5, <1>6, <1>7 DEF SyncStep

LEMMA OtherTypes ==
  ASSUME TypeOK,
         \/ \E a \in Action : Cancel(a)
         \/ \E i \in Item : AskOffline(i)
         \/ Forget \/ ProfileChanges \/ GoOffline \/ GoOnline
  PROVE  TypeOK'
<1>1. ASSUME NEW a \in Action, Cancel(a)
      PROVE  TypeOK'
  BY <1>1 DEF Cancel, TypeOK, browser
<1>2. ASSUME NEW i \in Item, AskOffline(i)
      PROVE  TypeOK'
  BY <1>2 DEF AskOffline, TypeOK, server
<1>3. CASE Forget
  BY <1>3 DEF Forget, TypeOK, browser
<1>4. CASE ProfileChanges
  BY <1>4 DEF ProfileChanges, TypeOK, browser
<1>5. CASE GoOffline
  <2>1. sync' \in [Sync -> Replay]
    BY <1>5, ZenonT(40) DEF GoOffline, TypeOK, Replay
  <2> QED
    BY <1>5, <2>1, MishapType DEF GoOffline, TypeOK, server
<1>6. CASE GoOnline
  BY <1>6 DEF GoOnline, TypeOK, server
<1> QED
  BY <1>1, <1>2, <1>3, <1>4, <1>5, <1>6

LEMMA TypesStep ==
  ASSUME TypeOK, [Next]_vars
  PROVE  TypeOK'
<1>1. CASE Next
  <2>1. User \subseteq Caller
    BY DEF Caller
  <2> QED
    BY <1>1, <2>1, ChatTypes, ConfirmTypes, SyncTypes, OtherTypes DEF Next
<1>2. CASE UNCHANGED vars
  BY <1>2 DEF vars, server, browser, TypeOK
<1> QED
  BY <1>1, <1>2

LEMMA InitTypes == Init => TypeOK
BY StartTypes, VaultAssumption DEF Init, TypeOK

\* Types: every status is one that the check constraint of vault_actions
\* knows, and the number of stored messages never becomes negative.
THEOREM VaultTypes == Spec => []TypeOK
BY InitTypes, TypesStep, PTL DEF Spec

(***************************************************************************)
(* The quota.                                                              *)
(***************************************************************************)

LEMMA MishapKept == ASSUME NEW k, Mishap(k) PROVE mishap \subseteq mishap'
BY DEF Mishap

\* What has gone wrong stays in the history.
LEMMA MishapsStay ==
  ASSUME [Next]_vars
  PROVE  mishap \subseteq mishap'
<1>1. ASSUME NEW k \in Caller, UserAsks(k) \/ ChatStep(k) \/ ChatDies(k)
      PROVE  mishap \subseteq mishap'
  BY <1>1, MishapKept DEF UserAsks, ChatStep, Count, Refuse, Store, StreamEnds, ChatDies
<1>2. ASSUME NEW r \in Request,
             (\E a \in Action : Confirm(r, a)) \/ ConfirmStep(r) \/ RequestDies(r)
      PROVE  mishap \subseteq mishap'
  BY <1>2, MishapKept DEF Confirm, ConfirmStep, Judge, Reject, MarkConfirmed, Run, Record, Audit,
                    Save, RequestDies
<1>3. ASSUME NEW s \in Sync, StartSync(s) \/ SyncStep(s) \/ TabCloses(s)
      PROVE  mishap \subseteq mishap'
  BY <1>3, MishapKept DEF StartSync, SyncStep, Mark, Send, CannotSend, TakeAnswer, EndSync, TabCloses
<1>4. ASSUME \/ \E a \in Action : Cancel(a)
             \/ \E i \in Item : AskOffline(i)
             \/ Forget \/ ProfileChanges \/ GoOffline \/ GoOnline
      PROVE  mishap \subseteq mishap'
  BY <1>4, MishapKept DEF Cancel, AskOffline, Forget, ProfileChanges, GoOffline, GoOnline
<1>5. CASE UNCHANGED vars
  BY <1>5 DEF vars
<1>6. User \subseteq Caller
  BY DEF Caller
<1> QED
  BY <1>1, <1>2, <1>3, <1>4, <1>5, <1>6 DEF Next

\* The requests that have passed the quota and not stored their message yet.
Counted == {k \in Caller : chat[k].pc = "counted"}

\* Each of them will add a message.
QuotaRoom ==
  "db" \notin mishap => used + Cardinality(Counted) < Limit + Cardinality(Caller)

LEMMA CountedFinite ==
  /\ IsFiniteSet(Counted)
  /\ Cardinality(Counted) \in Nat
  /\ Cardinality(Caller) \in Nat
BY VaultAssumption, FS_Subset, FS_CardinalityType DEF Counted

LEMMA RoomStays ==
  ASSUME TypeOK, QuotaRoom, used' \in Nat, used' <= used, Counted' \subseteq Counted,
         mishap \subseteq mishap'
  PROVE  QuotaRoom'
<1>1. IsFiniteSet(Counted') /\ Cardinality(Counted') \in Nat
  BY CountedFinite, FS_Subset, FS_CardinalityType
<1>2. Cardinality(Counted') <= Cardinality(Counted)
  BY CountedFinite, FS_Subset
<1> QED
  BY <1>1, <1>2, CountedFinite, VaultAssumption DEF QuotaRoom, TypeOK

LEMMA RoomStep ==
  ASSUME TypeOK, QuotaRoom, [Next]_vars
  PROVE  QuotaRoom'
<1>0. mishap \subseteq mishap'
  BY MishapsStay
<1>1. ASSUME NEW k \in Caller, Count(k)
      PROVE  QuotaRoom'
  <2>1. CASE used < Limit /\ UNCHANGED mishap
    <3>1. k \notin Counted /\ Counted' = Counted \union {k}
      BY <1>1 DEF Count, Counted, TypeOK
    <3>2. Cardinality(Counted') = Cardinality(Counted) + 1
      BY <3>1, CountedFinite, FS_AddElement
    <3>3. Counted \subseteq Caller \ {k}
      BY <3>1 DEF Counted
    <3>4. Cardinality(Counted) <= Cardinality(Caller \ {k})
      BY <3>3, VaultAssumption, FS_Subset, FS_RemoveElement
    <3>5. Cardinality(Caller \ {k}) = Cardinality(Caller) - 1
      BY VaultAssumption, FS_RemoveElement
    <3>6. used' = used /\ used \in Nat /\ Limit \in Nat
      BY <1>1, VaultAssumption DEF Count, TypeOK, server
    <3> QED
      BY <2>1, <3>2, <3>4, <3>5, <3>6, CountedFinite DEF QuotaRoom
  <2>2. CASE Mishap("db")
    BY <2>2 DEF Mishap, QuotaRoom
  <2> QED
    BY <1>1, <2>1, <2>2 DEF Count
<1>2. ASSUME NEW k \in Caller, Store(k)
      PROVE  QuotaRoom'
  <2>1. k \in Counted /\ Counted' = Counted \ {k}
    BY <1>2 DEF Store, Counted, TypeOK
  <2>2. Cardinality(Counted') = Cardinality(Counted) - 1
    BY <2>1, CountedFinite, FS_RemoveElement
  <2>3. used' \in {used, used + 1} /\ used \in Nat
    BY <1>2 DEF Store, TypeOK
  <2> QED
    BY <1>0, <2>2, <2>3, CountedFinite, VaultAssumption DEF QuotaRoom
<1>3. ASSUME NEW k \in Caller,
             (k \in User /\ UserAsks(k)) \/ Refuse(k) \/ StreamEnds(k) \/ ChatDies(k)
      PROVE  QuotaRoom'
  <2>1. Counted' \subseteq Counted
    <3>1. PICK c \in {Opened(0), NoChat} : chat' = [chat EXCEPT ![k] = c]
      BY <1>3 DEF UserAsks, Refuse, StreamEnds, ChatDies
    <3>2. c.pc # "counted"
      BY DEF Opened, NoChat
    <3> QED
      BY <3>1, <3>2 DEF Counted, TypeOK
  <2>2. used' = used
    BY <1>3 DEF UserAsks, Refuse, StreamEnds, ChatDies, server
  <2> QED
    BY <1>0, <2>1, <2>2, RoomStays DEF TypeOK
<1>4. ASSUME NEW s \in Sync, Send(s)
      PROVE  QuotaRoom'
  <2>1. Counted' \subseteq Counted
    BY <1>4 DEF Send, Opened, Counted, TypeOK
  <2>2. used' = used
    BY <1>4 DEF Send, server
  <2> QED
    BY <1>0, <2>1, <2>2, RoomStays DEF TypeOK
<1>5. CASE Forget
  <2>1. Counted' = Counted
    BY <1>5 DEF Forget, Counted
  <2>2. used' \in Nat /\ used' <= used
    BY <1>5 DEF Forget, TypeOK
  <2> QED
    BY <1>0, <2>1, <2>2, RoomStays
<1>6. ASSUME UNCHANGED <<used, chat>>
      PROVE  QuotaRoom'
  BY <1>0, <1>6, RoomStays DEF Counted, TypeOK
<1>7. ASSUME NEW r \in Request,
             (\E a \in Action : Confirm(r, a)) \/ ConfirmStep(r) \/ RequestDies(r)
      PROVE  UNCHANGED <<used, chat>>
  BY <1>7 DEF Confirm, ConfirmStep, Judge, Reject, MarkConfirmed, Run, Record, Audit, RequestDies
<1>8. ASSUME NEW s \in Sync, \/ StartSync(s) \/ Mark(s) \/ CannotSend(s)
                             \/ TakeAnswer(s) \/ EndSync(s) \/ TabCloses(s)
      PROVE  UNCHANGED <<used, chat>>
  BY <1>8 DEF StartSync, Mark, CannotSend, TakeAnswer, EndSync, TabCloses, server
<1>9. ASSUME \/ \E a \in Action : Cancel(a)
             \/ \E i \in Item : AskOffline(i)
             \/ ProfileChanges \/ GoOffline \/ GoOnline
             \/ UNCHANGED vars
      PROVE  UNCHANGED <<used, chat>>
  BY <1>9 DEF Cancel, AskOffline, ProfileChanges, GoOffline, GoOnline, vars, server
<1> QED
  BY <1>1, <1>2, <1>3, <1>4, <1>5, <1>6, <1>7, <1>8, <1>9 DEF Next, ChatStep, SyncStep, Caller

LEMMA InitRoom == Init => QuotaRoom
<1> SUFFICES ASSUME Init PROVE QuotaRoom
  OBVIOUS
<1>1. Counted = {}
  BY DEF Init, NoChat, Counted
<1>2. Cardinality(Caller) # 0
  BY VaultAssumption, FS_EmptySet DEF Caller
<1> QED
  BY <1>1, <1>2, FS_EmptySet, CountedFinite, VaultAssumption DEF Init, QuotaRoom

\* The quota that is counted before a message is stored is exceeded by at most
\* one message less than there are requests at a time.
THEOREM QuotaIsHeld == Spec => []QuotaHeld
<1>1. TypeOK /\ QuotaRoom => QuotaHeld
  BY CountedFinite, VaultAssumption DEF QuotaRoom, QuotaHeld, TypeOK
<1> QED
  BY <1>1, InitTypes, TypesStep, InitRoom, RoomStep, PTL DEF Spec

(***************************************************************************)
(* What the status of an action tells of its executions.                   *)
(***************************************************************************)

\* Confirmation r deals with action a.
At(r, a) == request[r].pc # "idle" /\ request[r].action = a

\* Two requests are never at one action that was not raced for.
Alone == \A a \in Action \ raced : \A r, q \in Request : At(r, a) /\ At(q, a) => r = q

\* An action is not decided before its request records the outcome.
Undecided ==
  \A a \in Action \ raced : \A r \in Request :
     At(r, a) /\ request[r].pc # "recorded" => status[a] \in {"proposed", "confirmed"}

\* What the status and the progress of the request tell of the executions.
Told(a) ==
  /\ runs[a] <= 1
  /\ status[a] \in {"none", "proposed", "cancelled"} => runs[a] = 0
  /\ status[a] \in {"executed", "failed"} => runs[a] = 1
  /\ \A r \in Request : At(r, a) =>
       /\ request[r].pc \in {"read", "judged"} => status[a] = "proposed"
       /\ request[r].pc = "confirmed" => status[a] = "confirmed" /\ runs[a] = 0
       /\ request[r].pc = "ran" => status[a] = "confirmed" /\ runs[a] = 1
       /\ request[r].pc = "recorded" => status[a] \in {"executed", "failed"}

AllTold == "db" \notin mishap => \A a \in Action \ raced : Told(a)

ActionsInv == Alone /\ Undecided /\ AllTold

LEMMA ActionsStay ==
  ASSUME ActionsInv, mishap \subseteq mishap', UNCHANGED <<status, request, runs, raced>>
  PROVE  ActionsInv'
BY DEF ActionsInv, Alone, Undecided, AllTold, Told, At

LEMMA SaveFacts ==
  ASSUME TypeOK, NEW a \in Action, NEW st, Save(a, st)
  PROVE  /\ \A b \in Action \ {a} : status'[b] = status[b]
         /\ status'[a] \in {status[a], st}
         /\ "db" \notin mishap' => status'[a] = st
BY DEF TypeOK, Save, Mishap

LEMMA ConfirmInv ==
  ASSUME TypeOK, ActionsInv, NEW r \in Request, NEW a \in Action, Confirm(r, a)
  PROVE  ActionsInv'
<1>1. /\ status' = status /\ runs' = runs /\ mishap' = mishap
      /\ status[a] = "proposed" /\ request[r].pc = "idle"
      /\ request' = [request EXCEPT ![r] = [pc |-> "read", action |-> a, ok |-> FALSE]]
  BY DEF Confirm, browser
<1>2. raced \subseteq raced' /\ (a \notin raced' => \A q \in Request : ~At(q, a))
  BY DEF Confirm, UnderWay, At
<1>3. \A q \in Request, b \in Action : At(q, b)' <=> At(q, b) \/ (q = r /\ b = a)
  BY <1>1 DEF At, TypeOK
<1>4. \A q \in Request \ {r} : request'[q] = request[q]
  BY <1>1 DEF TypeOK
<1>5. request'[r].pc = "read"
  BY <1>1 DEF TypeOK
<1>6. Alone'
  BY <1>2, <1>3 DEF ActionsInv, Alone
<1>7. Undecided'
  BY <1>1, <1>2, <1>3, <1>4, <1>5 DEF ActionsInv, Undecided
<1>8. AllTold'
  <2> SUFFICES ASSUME "db" \notin mishap', NEW b \in Action \ raced'
               PROVE  Told(b)'
    BY DEF AllTold
  <2>1. Told(b)
    BY <1>1, <1>2 DEF ActionsInv, AllTold
  <2>2. CASE b = a
    <3>1. \A q \in Request : At(q, b)' => request'[q].pc = "read"
      BY <1>2, <1>3, <1>5, <2>2
    <3> QED
      BY <1>1, <2>1, <2>2, <3>1 DEF Told
  <2>3. CASE b # a
    <3>1. \A q \in Request : At(q, b)' => At(q, b) /\ q # r
      BY <1>1, <1>3, <2>3 DEF At
    <3>2. \A q \in Request : At(q, b)' => At(q, b) /\ request'[q] = request[q]
      BY <1>4, <3>1
    <3> QED
      BY <1>1, <2>1, <3>2 DEF Told
  <2> QED
    BY <2>2, <2>3
<1> QED
  BY <1>6, <1>7, <1>8 DEF ActionsInv

\* A request that moves from one step to the next, or ends.
LEMMA RequestMoves ==
  ASSUME TypeOK, NEW r \in Request, NEW v, request[r].pc # "idle",
         request' = [request EXCEPT ![r] = v],
         v.pc = "idle" \/ v.action = request[r].action
  PROVE  /\ \A q \in Request \ {r} : request'[q] = request[q]
         /\ request'[r] = v
         /\ \A q \in Request, b \in Action : At(q, b)' => At(q, b)
         /\ \A b \in Action : At(r, b)' => b = request[r].action
         /\ request[r].action \in Action
         /\ At(r, request[r].action)
<1>1. request[r].action \in Action
  BY AtWork DEF Confirmation
<1> QED
  BY <1>1 DEF TypeOK, At

LEMMA ConfirmStepInv ==
  ASSUME TypeOK, ActionsInv, NEW r \in Request, ConfirmStep(r) \/ RequestDies(r),
         mishap \subseteq mishap'
  PROVE  ActionsInv'
<1> DEFINE a == request[r].action
<1>1. PICK v : /\ request' = [request EXCEPT ![r] = v]
               /\ v.pc = "idle" \/ v.action = request[r].action
  <2>1. request[r] \in Confirmation
    BY AtWork DEF ConfirmStep, Judge, Reject, MarkConfirmed, Run, Record, Audit, RequestDies
  <2>2. CASE Reject(r) \/ Audit(r) \/ RequestDies(r)
    BY <2>2 DEF Reject, Audit, RequestDies, Ends, Idle
  <2>3. CASE MarkConfirmed(r) \/ Record(r)
    <3>1. \A pc : [request[r] EXCEPT !.pc = pc].action = request[r].action
      BY <2>1 DEF Confirmation
    <3> QED
      BY <2>3, <3>1 DEF MarkConfirmed, Record, Advance
  <2>4. CASE Judge(r) \/ Run(r)
    <3>1. \A pc, ok : [request[r] EXCEPT !.pc = pc, !.ok = ok].action = request[r].action
      BY <2>1 DEF Confirmation
    <3>2. PICK pc, ok : request' = [request EXCEPT ![r].pc = pc, ![r].ok = ok]
      BY <2>4 DEF Judge, Run
    <3>3. request' = [request EXCEPT ![r] = [request[r] EXCEPT !.pc = pc, !.ok = ok]]
      BY <3>2 DEF TypeOK
    <3> QED
      BY <3>1, <3>3
  <2> QED
    BY <2>2, <2>3, <2>4 DEF ConfirmStep
<1>2. request[r].pc # "idle" /\ raced' = raced
  BY DEF ConfirmStep, Judge, Reject, MarkConfirmed, Run, Record, Audit, RequestDies, browser
<1>3. /\ \A q \in Request \ {r} : request'[q] = request[q]
      /\ \A q \in Request, b \in Action : At(q, b)' => At(q, b)
      /\ \A b \in Action : At(r, b)' => b = a
      /\ a \in Action
      /\ At(r, a)
  BY <1>1, <1>2, RequestMoves
<1>4. Alone'
  BY <1>2, <1>3 DEF ActionsInv, Alone
<1>5. \A b \in Action \ {a} : status'[b] = status[b] /\ runs'[b] = runs[b]
  BY <1>3, SaveFacts DEF ConfirmStep, Judge, Reject, MarkConfirmed, Run, Record, Audit,
     RequestDies, TypeOK
<1>6. a \notin raced => \A q \in Request : At(q, a) => q = r
  BY <1>3 DEF ActionsInv, Alone
<1>7. ASSUME \/ request'[r].pc = "idle"
             \/ request'[r].pc = "recorded"
             \/ status'[a] \in {status[a], "confirmed"} /\ request[r].pc # "recorded"
      PROVE  Undecided'
  <2> SUFFICES ASSUME NEW b \in Action \ raced', NEW q \in Request, At(q, b)',
                      request'[q].pc # "recorded"
               PROVE  status'[b] \in {"proposed", "confirmed"}
    BY DEF Undecided
  <2>1. At(q, b) /\ b \notin raced
    BY <1>2, <1>3
  <2>2. CASE q = r
    <3>1. b = a /\ request'[r].pc # "idle"
      BY <1>3, <2>2 DEF At
    <3>2. status'[a] \in {status[a], "confirmed"} /\ request[r].pc # "recorded"
      BY <1>7, <2>2, <3>1
    <3> QED
      BY <2>1, <2>2, <3>1, <3>2 DEF ActionsInv, Undecided
  <2>3. CASE q # r
    <3>1. b # a /\ request'[q] = request[q]
      BY <1>3, <1>6, <2>1, <2>3
    <3> QED
      BY <1>5, <2>1, <3>1 DEF ActionsInv, Undecided
  <2> QED
    BY <2>2, <2>3
<1>8. ASSUME "db" \notin mishap' /\ a \notin raced =>
                /\ runs'[a] <= 1
                /\ status'[a] \in {"none", "proposed", "cancelled"} => runs'[a] = 0
                /\ status'[a] \in {"executed", "failed"} => runs'[a] = 1
                /\ request'[r].pc \in {"read", "judged"} => status'[a] = "proposed"
                /\ request'[r].pc = "confirmed" => status'[a] = "confirmed" /\ runs'[a] = 0
                /\ request'[r].pc = "ran" => status'[a] = "confirmed" /\ runs'[a] = 1
                /\ request'[r].pc = "recorded" => status'[a] \in {"executed", "failed"}
      PROVE  AllTold'
  <2> SUFFICES ASSUME "db" \notin mishap', NEW b \in Action \ raced'
               PROVE  Told(b)'
    BY DEF AllTold
  <2>1. Told(b)
    BY <1>2 DEF ActionsInv, AllTold
  <2>2. CASE b = a
    BY <1>2, <1>3, <1>6, <1>8, <2>2 DEF Told
  <2>3. CASE b # a
    <3>1. \A q \in Request : At(q, b)' => At(q, b) /\ request'[q] = request[q]
      BY <1>3, <2>3
    <3> QED
      BY <1>5, <2>1, <2>3, <3>1 DEF Told
  <2> QED
    BY <2>2, <2>3
<1>9. "db" \notin mishap' /\ a \notin raced => Told(a)
  BY <1>3 DEF ActionsInv, AllTold
<1>10. CASE Judge(r)
  <2>1. request[r].pc = "read" /\ request'[r].pc = "judged" /\ status' = status /\ runs' = runs
    BY <1>10, AtWork DEF Judge, TypeOK, Confirmation
  <2> QED
    BY <1>3, <1>4, <1>7, <1>8, <1>9, <2>1 DEF ActionsInv, Told
<1>11. CASE Reject(r)
  <2>1. /\ request[r].pc = "judged" /\ request'[r].pc = "idle" /\ runs' = runs
        /\ "db" \notin mishap' => status'[a] = "cancelled"
    BY <1>3, <1>11, SaveFacts DEF Reject, Ends, Idle, TypeOK
  <2> QED
    BY <1>3, <1>4, <1>7, <1>8, <1>9, <2>1 DEF ActionsInv, Told
<1>12. CASE MarkConfirmed(r)
  <2>1. /\ request[r].pc = "judged" /\ request'[r].pc = "confirmed" /\ runs' = runs
        /\ status'[a] \in {status[a], "confirmed"}
        /\ "db" \notin mishap' => status'[a] = "confirmed"
    BY <1>3, <1>12, SaveFacts, AtWork DEF MarkConfirmed, Advance, Confirmation, TypeOK
  <2> QED
    BY <1>3, <1>4, <1>7, <1>8, <1>9, <2>1 DEF ActionsInv, Told
<1>13. CASE Run(r)
  <2>1. /\ request[r].pc = "confirmed" /\ request'[r].pc = "ran" /\ status' = status
        /\ runs'[a] = runs[a] + 1
    BY <1>3, <1>13, AtWork DEF Run, Confirmation, TypeOK
  <2> QED
    BY <1>3, <1>4, <1>7, <1>8, <1>9, <2>1 DEF ActionsInv, Told
<1>14. CASE Record(r)
  <2>1. /\ request[r].pc = "ran" /\ request'[r].pc = "recorded" /\ runs' = runs
        /\ "db" \notin mishap' => status'[a] \in {"executed", "failed"}
    BY <1>3, <1>14, SaveFacts, AtWork DEF Record, Advance, Confirmation, TypeOK
  <2> QED
    BY <1>3, <1>4, <1>7, <1>8, <1>9, <2>1 DEF ActionsInv, Told
<1>15. CASE Audit(r) \/ RequestDies(r)
  <2>1. request'[r].pc = "idle" /\ status' = status /\ runs' = runs
    BY <1>15 DEF Audit, RequestDies, Ends, Idle, TypeOK
  <2> QED
    BY <1>3, <1>4, <1>7, <1>8, <1>9, <2>1 DEF ActionsInv, Told
<1> QED
  BY <1>10, <1>11, <1>12, <1>13, <1>14, <1>15 DEF ConfirmStep

LEMMA CancelInv ==
  ASSUME TypeOK, ActionsInv, NEW a \in Action, Cancel(a)
  PROVE  ActionsInv'
<1>1. /\ request' = request /\ runs' = runs /\ mishap' = mishap
      /\ status[a] = "proposed" /\ status' = [status EXCEPT ![a] = "cancelled"]
  BY DEF Cancel, browser
<1>2. raced \subseteq raced' /\ (a \notin raced' => \A q \in Request : ~At(q, a))
  BY DEF Cancel, UnderWay, At
<1>3. \A q \in Request, b \in Action : At(q, b)' = At(q, b)
  BY <1>1 DEF At
<1>4. /\ status'[a] = "cancelled"
      /\ \A b \in Action \ {a} : status'[b] = status[b]
  BY <1>1 DEF TypeOK
<1>5. Alone'
  BY <1>2, <1>3 DEF ActionsInv, Alone
<1>6. Undecided'
  BY <1>1, <1>2, <1>3, <1>4 DEF ActionsInv, Undecided
<1>7. AllTold'
  BY <1>1, <1>2, <1>3, <1>4 DEF ActionsInv, AllTold, Told
<1> QED
  BY <1>5, <1>6, <1>7 DEF ActionsInv

LEMMA StreamEndsInv ==
  ASSUME TypeOK, ActionsInv, NEW k \in Caller, StreamEnds(k)
  PROVE  ActionsInv'
<1>1. /\ request' = request /\ runs' = runs /\ mishap' = mishap /\ raced' = raced
  BY DEF StreamEnds, browser
<1>2. CASE status' = status
  BY <1>1, <1>2, ActionsStay
<1>3. ASSUME NEW a \in Action, status[a] = "none", status' = [status EXCEPT ![a] = "proposed"]
      PROVE  ActionsInv'
  <2>1. \A q \in Request, b \in Action : At(q, b)' = At(q, b)
    BY <1>1 DEF At
  <2>2. /\ status'[a] = "proposed"
        /\ \A b \in Action \ {a} : status'[b] = status[b]
    BY <1>3 DEF TypeOK
  <2>3. Alone'
    BY <1>1, <2>1 DEF ActionsInv, Alone
  <2>4. Undecided'
    BY <1>1, <2>1, <2>2 DEF ActionsInv, Undecided
  <2>5. AllTold'
    BY <1>1, <1>3, <2>1, <2>2 DEF ActionsInv, AllTold, Told
  <2> QED
    BY <2>3, <2>4, <2>5 DEF ActionsInv
<1> QED
  BY <1>2, <1>3 DEF StreamEnds

\* The other steps leave the actions alone.
LEMMA Aside ==
  ASSUME \/ \E k \in Caller : UserAsks(k) \/ Count(k) \/ Refuse(k) \/ Store(k) \/ ChatDies(k)
         \/ \E s \in Sync : StartSync(s) \/ SyncStep(s) \/ TabCloses(s)
         \/ \E i \in Item : AskOffline(i)
         \/ Forget \/ ProfileChanges \/ GoOffline \/ GoOnline
         \/ UNCHANGED vars
  PROVE  UNCHANGED <<status, request, runs, raced, audit>>
<1>1. ASSUME NEW k \in Caller, UserAsks(k) \/ Count(k) \/ Refuse(k) \/ Store(k) \/ ChatDies(k)
      PROVE  UNCHANGED <<status, request, runs, raced, audit>>
  BY <1>1 DEF UserAsks, Count, Refuse, Store, ChatDies, server
<1>2. ASSUME NEW s \in Sync, StartSync(s) \/ SyncStep(s) \/ TabCloses(s)
      PROVE  UNCHANGED <<status, request, runs, raced, audit>>
  BY <1>2 DEF StartSync, SyncStep, Mark, Send, CannotSend, TakeAnswer, EndSync, TabCloses, server
<1>3. ASSUME \/ \E i \in Item : AskOffline(i)
             \/ Forget \/ ProfileChanges \/ GoOffline \/ GoOnline
             \/ UNCHANGED vars
      PROVE  UNCHANGED <<status, request, runs, raced, audit>>
  BY <1>3 DEF AskOffline, Forget, ProfileChanges, GoOffline, GoOnline, server, vars
<1> QED
  BY <1>1, <1>2, <1>3

LEMMA ActionsStep ==
  ASSUME TypeOK, ActionsInv, [Next]_vars
  PROVE  ActionsInv'
<1>0. mishap \subseteq mishap' /\ User \subseteq Caller
  BY MishapsStay DEF Caller
<1>1. CASE \E r \in Request, a \in Action : Confirm(r, a)
  BY <1>1, ConfirmInv
<1>2. CASE \E r \in Request : ConfirmStep(r) \/ RequestDies(r)
  BY <1>0, <1>2, ConfirmStepInv
<1>3. CASE \E a \in Action : Cancel(a)
  BY <1>3, CancelInv
<1>4. CASE \E k \in Caller : StreamEnds(k)
  BY <1>4, StreamEndsInv
<1>5. CASE UNCHANGED <<status, request, runs, raced>>
  BY <1>0, <1>5, ActionsStay
<1> QED
  BY <1>0, <1>1, <1>2, <1>3, <1>4, <1>5, Aside DEF Next, ChatStep

LEMMA InitActions == Init => ActionsInv
<1> SUFFICES ASSUME Init PROVE ActionsInv
  OBVIOUS
<1>1. \A r \in Request, a \in Action : ~At(r, a)
  BY DEF Init, At, Idle
<1>2. \A a \in Action : Told(a)
  BY <1>1 DEF Init, Told
<1> QED
  BY <1>1, <1>2 DEF ActionsInv, Alone, Undecided, AllTold

LEMMA ActionsInvariant == Spec => [](TypeOK /\ ActionsInv)
BY InitTypes, TypesStep, InitActions, ActionsStep, PTL DEF Spec

\* Unless two requests were at it at once or an update was lost, an action
\* runs at most once, crashes of the process included; it has run if it is
\* executed or failed, and it has not if it is proposed or cancelled.
THEOREM StatusTellsRuns == Spec => []RunsMatchStatus
<1>1. ActionsInv => RunsMatchStatus
  BY DEF ActionsInv, AllTold, Told, RunsMatchStatus
<1> QED
  BY <1>1, ActionsInvariant, PTL

\* The outcome of an action that no two requests were at is never overwritten.
THEOREM OutcomeStays == Spec => FinalIsFinal
<1> DEFINE Final(a) == status[a] \in {"executed", "failed", "cancelled"}
           Stays == \A a \in Action \ raced' : Final(a) => status'[a] = status[a]
<1>1. ASSUME TypeOK, ActionsInv, [Next]_vars
      PROVE  Stays
  <2>0. User \subseteq Caller
    BY DEF Caller
  <2>1. ASSUME NEW r \in Request, NEW a \in Action, Confirm(r, a)
        PROVE  Stays
    BY <2>1 DEF Confirm
  <2>2. ASSUME NEW r \in Request, ConfirmStep(r) \/ RequestDies(r)
        PROVE  Stays
    <3>1. CASE Reject(r) \/ MarkConfirmed(r) \/ Record(r)
      <4> DEFINE a == request[r].action
      <4>1. /\ request[r].pc \in {"judged", "ran"} /\ a \in Action /\ raced' = raced
        BY <1>1, <3>1, AtWork DEF Reject, MarkConfirmed, Record, Confirmation
      <4>2. \A b \in Action \ {a} : status'[b] = status[b]
        BY <1>1, <3>1, <4>1, SaveFacts DEF Reject, MarkConfirmed, Record
      <4>3. a \notin raced => ~Final(a)
        BY <1>1, <4>1 DEF ActionsInv, Undecided, At
      <4> QED
        BY <4>1, <4>2, <4>3
    <3>2. CASE Judge(r) \/ Run(r) \/ Audit(r) \/ RequestDies(r)
      BY <3>2 DEF Judge, Run, Audit, RequestDies
    <3> QED
      BY <2>2, <3>1, <3>2 DEF ConfirmStep
  <2>3. ASSUME NEW a \in Action, Cancel(a)
        PROVE  Stays
    BY <1>1, <2>3 DEF Cancel, TypeOK
  <2>4. ASSUME NEW k \in Caller, StreamEnds(k)
        PROVE  Stays
    BY <1>1, <2>4 DEF StreamEnds, TypeOK
  <2>5. CASE UNCHANGED status
    BY <2>5
  <2> QED
    BY <1>1, <2>0, <2>1, <2>2, <2>3, <2>4, <2>5, Aside DEF Next, ChatStep
<1>2. TypeOK /\ ActionsInv /\ [Next]_vars => [Stays]_vars
  BY <1>1
<1> QED
  BY <1>2, ActionsInvariant, PTL DEF Spec, FinalIsFinal

(***************************************************************************)
(* The audit.                                                              *)
(***************************************************************************)

\* The confirmations that have executed action a and not written its entry.
Owing(a) == {r \in Request : request[r].pc \in {"ran", "recorded"} /\ request[r].action = a}

Accounted ==
  mishap \subseteq {"net"} => \A a \in Action : runs[a] = audit[a] + Cardinality(Owing(a))

LEMMA OwingFinite ==
  ASSUME NEW a
  PROVE  IsFiniteSet(Owing(a)) /\ Cardinality(Owing(a)) \in Nat
BY VaultAssumption, FS_Subset, FS_CardinalityType DEF Owing

LEMMA AccountedStays ==
  ASSUME Accounted, mishap \subseteq mishap', UNCHANGED <<runs, audit>>,
         \A a \in Action : Owing(a)' = Owing(a)
  PROVE  Accounted'
BY DEF Accounted

LEMMA AccountedStep ==
  ASSUME TypeOK, Accounted, [Next]_vars
  PROVE  Accounted'
<1>0. mishap \subseteq mishap' /\ User \subseteq Caller
  BY MishapsStay DEF Caller
<1>1. ASSUME NEW r \in Request, NEW b \in Action, Confirm(r, b)
      PROVE  Accounted'
  <2>1. \A a \in Action : Owing(a)' = Owing(a)
    BY <1>1 DEF Confirm, Owing, TypeOK
  <2> QED
    BY <1>0, <1>1, <2>1, AccountedStays DEF Confirm
<1>2. ASSUME NEW r \in Request, Judge(r) \/ Reject(r) \/ MarkConfirmed(r)
      PROVE  Accounted'
  <2>1. /\ \A q \in Request \ {r} : request'[q] = request[q]
        /\ request[r].pc \notin {"ran", "recorded"}
    BY <1>2 DEF Judge, Reject, MarkConfirmed, Advance, Ends, TypeOK
  <2>2. request'[r].pc \notin {"ran", "recorded"}
    BY <1>2, AtWork DEF Judge, Reject, MarkConfirmed, Advance, Ends, Idle, TypeOK, Confirmation
  <2>3. \A a \in Action : Owing(a)' = Owing(a)
    BY <2>1, <2>2 DEF Owing
  <2> QED
    BY <1>0, <1>2, <2>3, AccountedStays DEF Judge, Reject, MarkConfirmed
<1>3. ASSUME NEW r \in Request, Run(r)
      PROVE  Accounted'
  <2>0. PICK b \in Action : b = request[r].action
    BY <1>3, AtWork DEF Run, Confirmation
  <2>1. /\ \A q \in Request \ {r} : request'[q] = request[q]
        /\ request'[r].pc = "ran" /\ request'[r].action = b /\ request[r].pc = "confirmed"
    BY <1>3, <2>0, AtWork DEF Run, TypeOK, Confirmation
  <2>2. /\ runs'[b] = runs[b] + 1 /\ \A a \in Action \ {b} : runs'[a] = runs[a]
        /\ audit' = audit
    BY <1>3, <2>0 DEF Run, TypeOK
  <2> SUFFICES ASSUME mishap' \subseteq {"net"}, NEW a \in Action
               PROVE  runs'[a] = audit'[a] + Cardinality(Owing(a)')
    BY DEF Accounted
  <2>3. runs[a] = audit[a] + Cardinality(Owing(a))
    BY <1>0 DEF Accounted
  <2>4. audit[a] \in Nat /\ Cardinality(Owing(a)) \in Nat
    BY OwingFinite DEF TypeOK
  <2>5. CASE a = b
    <3>1. Owing(a)' = Owing(a) \union {r} /\ r \notin Owing(a)
      BY <2>1, <2>5 DEF Owing
    <3>2. Cardinality(Owing(a)') = Cardinality(Owing(a)) + 1
      BY <3>1, OwingFinite, FS_AddElement
    <3> QED
      BY <2>2, <2>3, <2>4, <2>5, <3>2
  <2>6. CASE a # b
    <3>1. Owing(a)' = Owing(a)
      BY <2>1, <2>6 DEF Owing
    <3> QED
      BY <2>2, <2>3, <2>6, <3>1
  <2> QED
    BY <2>5, <2>6
<1>4. ASSUME NEW r \in Request, Record(r)
      PROVE  Accounted'
  <2>1. /\ \A q \in Request \ {r} : request'[q] = request[q]
        /\ request'[r].pc = "recorded" /\ request'[r].action = request[r].action
        /\ request[r].pc = "ran"
    BY <1>4, AtWork DEF Record, Advance, TypeOK, Confirmation
  <2>2. \A a \in Action : Owing(a)' = Owing(a)
    BY <2>1 DEF Owing
  <2> QED
    BY <1>0, <1>4, <2>2, AccountedStays DEF Record
<1>5. ASSUME NEW r \in Request, Audit(r)
      PROVE  Accounted'
  <2>0. PICK b \in Action : b = request[r].action
    BY <1>5, AtWork DEF Audit, Confirmation
  <2>1. /\ \A q \in Request \ {r} : request'[q] = request[q]
        /\ request'[r].pc = "idle" /\ request[r].pc = "recorded"
    BY <1>5 DEF Audit, Ends, Idle, TypeOK
  <2> SUFFICES ASSUME mishap' \subseteq {"net"}, NEW a \in Action
               PROVE  runs'[a] = audit'[a] + Cardinality(Owing(a)')
    BY DEF Accounted
  <2>2. /\ audit'[b] = audit[b] + 1 /\ \A x \in Action \ {b} : audit'[x] = audit[x]
        /\ runs' = runs
    BY <1>5, <2>0 DEF Audit, Mishap, TypeOK
  <2>3. runs[a] = audit[a] + Cardinality(Owing(a))
    BY <1>0 DEF Accounted
  <2>4. audit[a] \in Nat /\ Cardinality(Owing(a)) \in Nat
    BY OwingFinite DEF TypeOK
  <2>5. CASE a = b
    <3>1. Owing(a)' = Owing(a) \ {r} /\ r \in Owing(a)
      BY <2>0, <2>1, <2>5 DEF Owing
    <3>2. Cardinality(Owing(a)') = Cardinality(Owing(a)) - 1
      BY <3>1, OwingFinite, FS_RemoveElement
    <3> QED
      BY <2>2, <2>3, <2>4, <2>5, <3>2
  <2>6. CASE a # b
    <3>1. Owing(a)' = Owing(a)
      BY <2>0, <2>1, <2>6 DEF Owing
    <3> QED
      BY <2>2, <2>3, <2>6, <3>1
  <2> QED
    BY <2>5, <2>6
<1>6. ASSUME NEW r \in Request, RequestDies(r)
      PROVE  Accounted'
  BY <1>6 DEF RequestDies, Mishap, Accounted
<1>7. CASE UNCHANGED <<request, runs, audit>>
  BY <1>0, <1>7, AccountedStays DEF Owing
<1>8. ASSUME NEW a \in Action, Cancel(a)
      PROVE  UNCHANGED <<request, runs, audit>>
  BY <1>8 DEF Cancel
<1>9. ASSUME NEW k \in Caller, StreamEnds(k)
      PROVE  UNCHANGED <<request, runs, audit>>
  BY <1>9 DEF StreamEnds
<1> QED
  BY <1>0, <1>1, <1>2, <1>3, <1>4, <1>5, <1>6, <1>7, <1>8, <1>9, Aside
     DEF Next, ChatStep, ConfirmStep

LEMMA InitAccounted == Init => Accounted
<1> SUFFICES ASSUME Init PROVE Accounted
  OBVIOUS
<1>1. \A a \in Action : Owing(a) = {}
  BY DEF Init, Owing, Idle
<1>2. \A a \in Action : runs[a] = audit[a] /\ audit[a] \in Nat
  BY DEF Init
<1> QED
  BY <1>1, <1>2, FS_EmptySet DEF Accounted

\* Every execution leaves its entry in audit_logs, unless its request died or
\* the insert failed.
THEOREM EveryRunIsAudited == Spec => []RunsAudited
<1>1. TypeOK /\ Accounted => RunsAudited
  <2> SUFFICES ASSUME TypeOK, Accounted, mishap \subseteq {"net"}, NEW a \in Action, ~UnderWay(a)
               PROVE  audit[a] = runs[a]
    BY DEF RunsAudited
  <2>1. Owing(a) = {}
    BY DEF Owing, UnderWay
  <2>2. Cardinality(Owing(a)) = 0 /\ audit[a] \in Nat
    BY <2>1, FS_EmptySet DEF TypeOK
  <2> QED
    BY <2>2 DEF Accounted
<1> QED
  BY <1>1, InitTypes, TypesStep, InitAccounted, AccountedStep, PTL DEF Spec

(***************************************************************************)
(* What the status of a queued item tells of its message.                  *)
(***************************************************************************)

\* Replay s has read item i and not taken it up, or is about to send it.
Listed(s, i)  == i \in sync[s].todo
Sending(s, i) == sync[s].pc = "sending" /\ sync[s].item = i

\* A request for item i has not stored its message yet.
Coming(k, i) == chat[k].pc \in {"started", "counted"} /\ chat[k].item = i

\* An item is listed, about to be sent, on its way or asked, by one only.
Once(i) ==
  /\ asked[i] <= 1
  /\ \A s, t \in Sync : Listed(s, i) \/ Sending(s, i) =>
       /\ Listed(t, i) \/ Sending(t, i) => s = t
       /\ ~(Listed(s, i) /\ Sending(s, i))
       /\ asked[i] = 0
       /\ \A k \in Caller : ~Coming(k, i)
  /\ \A k, l \in Caller : Coming(k, i) => asked[i] = 0 /\ (Coming(l, i) => k = l)
  /\ item[i] \in {"none", "queued_offline"} =>
       /\ asked[i] = 0
       /\ \A k \in Caller : ~Coming(k, i)
       /\ \A s \in Sync : ~Sending(s, i)
  /\ item[i] = "none" => \A s \in Sync : ~Listed(s, i)

AllOnce == \A i \in Item \ crossed : Once(i)

\* A replay that waits, waits for its own request.
Awaited ==
  \A s \in Sync :
    /\ sync[s].pc \in {"sending", "waiting", "answered"} => sync[s].item \in Item
    /\ sync[s].pc = "waiting" => Coming(s, sync[s].item)

Answer(s) == sync[s].pc = "answered" /\ sync[s].ok

\* What was answered well, or counts as executed, has been stored.
Stored ==
  "db" \notin mishap =>
     /\ \A i \in Item : item[i] = "executed" => asked[i] > 0
     /\ \A s \in Sync : Answer(s) => asked[sync[s].item] > 0

QueueInv == AllOnce /\ Awaited /\ Stored

LEMMA OnceStays ==
  ASSUME NEW i \in Item, Once(i), asked'[i] = asked[i],
         item'[i] = item[i] \/ item'[i] \notin {"none", "queued_offline"},
         \A s \in Sync : /\ Listed(s, i)' => Listed(s, i)
                         /\ Sending(s, i)' => Sending(s, i),
         \A k \in Caller : Coming(k, i)' => Coming(k, i)
  PROVE  Once(i)'
BY DEF Once

\* Telling a replay that waits changes nothing else.
LEMMA TellFacts ==
  ASSUME TypeOK, NEW k \in Caller, NEW ok \in BOOLEAN, Tell(k, ok)
  PROVE  /\ \A s \in Sync \ {k} : sync'[s] = sync[s]
         /\ \A s \in Sync : /\ sync'[s].todo = sync[s].todo
                            /\ sync'[s].item = sync[s].item
                            /\ \/ sync'[s].pc = sync[s].pc /\ sync'[s].ok = sync[s].ok
                               \/ /\ s = k /\ sync[s].pc = "waiting"
                                  /\ sync'[s].pc = "answered" /\ sync'[s].ok = ok
         /\ k \in Sync => sync'[k].pc # "waiting"
BY DEF Tell, TypeOK, Replay

\* A request that opens, goes on or ends without a message.
LEMMA ChatInv ==
  ASSUME TypeOK, QueueInv, NEW k \in Caller, mishap \subseteq mishap',
         (k \in User /\ UserAsks(k)) \/ Count(k) \/ StreamEnds(k)
  PROVE  QueueInv'
<1>1. UNCHANGED <<sync, item, asked, crossed>>
  BY DEF UserAsks, Count, StreamEnds, browser
<1>2. ASSUME NEW l \in Caller, NEW i \in Item
      PROVE  Coming(l, i)' => Coming(l, i)
  <2>1. i # 0
    BY VaultAssumption
  <2> QED
    BY <2>1 DEF Coming, UserAsks, Opened, Count, StreamEnds, NoChat, TypeOK, Chat
<1>3. AllOnce'
  BY <1>1, <1>2, OnceStays DEF QueueInv, AllOnce, Listed, Sending
<1>4. ASSUME NEW s \in Sync, sync[s].pc = "waiting"
      PROVE  Coming(s, sync[s].item)'
  <2>1. chat[s].pc \in {"started", "counted"} /\ chat[s].item = sync[s].item /\ s \in Caller
    BY <1>4 DEF QueueInv, Awaited, Coming, Caller
  <2>2. s \notin User
    BY VaultAssumption
  <2> QED
    BY <1>1, <2>1, <2>2 DEF Coming, UserAsks, Count, StreamEnds, TypeOK, Chat
<1>5. Awaited'
  BY <1>1, <1>4 DEF QueueInv, Awaited
<1>6. Stored'
  BY <1>1 DEF QueueInv, Stored, Answer
<1> QED
  BY <1>3, <1>5, <1>6 DEF QueueInv

LEMMA RefuseInv ==
  ASSUME TypeOK, QueueInv, NEW k \in Caller, mishap \subseteq mishap', Refuse(k) \/ ChatDies(k)
  PROVE  QueueInv'
<1>1. UNCHANGED <<item, asked, crossed>> /\ chat' = [chat EXCEPT ![k] = NoChat]
  BY DEF Refuse, ChatDies
<1>2. Tell(k, FALSE)
  BY DEF Refuse, ChatDies
<1>3. \A l \in Caller : l # k => chat'[l] = chat[l]
  BY <1>1 DEF TypeOK
<1>4. chat'[k].pc = "idle"
  BY <1>1 DEF NoChat, TypeOK
<1>5. \A l \in Caller, i \in Item : Coming(l, i)' => Coming(l, i)
  BY <1>3, <1>4 DEF Coming
<1>6. \A s \in Sync, i \in Item : /\ Listed(s, i)' => Listed(s, i)
                                  /\ Sending(s, i)' => Sending(s, i)
  BY <1>2, TellFacts DEF Listed, Sending
<1>7. AllOnce'
  BY <1>1, <1>5, <1>6, OnceStays DEF QueueInv, AllOnce
<1>8. Awaited'
  <2> SUFFICES ASSUME NEW s \in Sync
               PROVE  /\ sync'[s].pc \in {"sending", "waiting", "answered"} => sync'[s].item \in Item
                      /\ sync'[s].pc = "waiting" => Coming(s, sync[s].item)'
    BY DEF Awaited
  <2>1. sync'[s].pc = "waiting" => s # k /\ sync'[s] = sync[s] /\ chat'[s] = chat[s]
    BY <1>2, <1>3, TellFacts DEF Caller
  <2>2. sync'[s].item = sync[s].item
    BY <1>2, TellFacts
  <2>3. sync'[s].pc \in {"sending", "waiting", "answered"}
           => sync[s].pc \in {"sending", "waiting", "answered"}
    BY <1>2, TellFacts
  <2> QED
    BY <2>1, <2>2, <2>3 DEF QueueInv, Awaited, Coming
<1>9. Stored'
  <2>1. \A s \in Sync : Answer(s)' => Answer(s) /\ sync'[s].item = sync[s].item
    BY <1>2, TellFacts DEF Answer
  <2> QED
    BY <1>1, <2>1 DEF QueueInv, Stored
<1> QED
  BY <1>7, <1>8, <1>9 DEF QueueInv

LEMMA StoreInv ==
  ASSUME TypeOK, QueueInv, NEW k \in Caller, mishap \subseteq mishap', Store(k)
  PROVE  QueueInv'
<1>1. /\ UNCHANGED <<item, crossed>> /\ Tell(k, TRUE)
      /\ chat[k].pc = "counted" /\ chat' = [chat EXCEPT ![k].pc = "open"]
  BY DEF Store
<1>2. \A l \in Caller : l # k => chat'[l] = chat[l]
  BY <1>1 DEF TypeOK
<1>3. chat'[k].pc = "open"
  BY <1>1 DEF TypeOK, Chat
<1>4. \A l \in Caller, i \in Item : Coming(l, i)' <=> Coming(l, i) /\ l # k
  BY <1>2, <1>3 DEF Coming
<1>5. \A s \in Sync, i \in Item : /\ Listed(s, i)' => Listed(s, i)
                                  /\ Sending(s, i)' => Sending(s, i)
  BY <1>1, TellFacts DEF Listed, Sending
<1>6. \A i \in Item : /\ asked[i] \in Nat
                      /\ asked'[i] \in {asked[i], asked[i] + 1}
                      /\ asked'[i] # asked[i] => chat[k].item = i
  BY DEF Store, TypeOK
<1>7. ASSUME NEW i \in Item \ crossed'
      PROVE  Once(i)'
  <2>1. Once(i)
    BY <1>1, <1>7 DEF QueueInv, AllOnce
  <2>2. CASE asked'[i] = asked[i]
    BY <1>1, <1>4, <1>5, <2>1, <2>2, OnceStays
  <2>3. CASE asked'[i] # asked[i]
    <3>1. Coming(k, i) /\ asked[i] = 0 /\ asked'[i] = 1
      BY <1>1, <1>6, <2>1, <2>3 DEF Coming, Once
    <3>2. \A l \in Caller : ~Coming(l, i)'
      BY <1>4, <2>1, <3>1 DEF Once
    <3>3. \A s \in Sync : ~Listed(s, i)' /\ ~Sending(s, i)'
      BY <1>5, <2>1, <3>1 DEF Once
    <3>4. item'[i] \notin {"none", "queued_offline"}
      BY <1>1, <2>1, <3>1 DEF Once
    <3> QED
      BY <3>1, <3>2, <3>3, <3>4 DEF Once
  <2> QED
    BY <2>2, <2>3
<1>8. Awaited'
  <2> SUFFICES ASSUME NEW s \in Sync
               PROVE  /\ sync'[s].pc \in {"sending", "waiting", "answered"} => sync'[s].item \in Item
                      /\ sync'[s].pc = "waiting" => Coming(s, sync[s].item)'
    BY DEF Awaited
  <2>1. sync'[s].pc = "waiting" => s # k /\ sync'[s] = sync[s] /\ chat'[s] = chat[s]
    BY <1>1, <1>2, TellFacts, ZenonT(40) DEF Caller
  <2>2. sync'[s].item = sync[s].item
    BY <1>1, TellFacts
  <2>3. sync'[s].pc \in {"sending", "waiting", "answered"}
           => sync[s].pc \in {"sending", "waiting", "answered"}
    BY <1>1, TellFacts
  <2> QED
    BY <2>1, <2>2, <2>3 DEF QueueInv, Awaited, Coming
<1>9. Stored'
  <2> SUFFICES ASSUME "db" \notin mishap'
               PROVE  /\ \A i \in Item : item'[i] = "executed" => asked'[i] > 0
                      /\ \A s \in Sync : Answer(s)' => asked'[sync'[s].item] > 0
    BY DEF Stored
  <2>1. ASSUME NEW s \in Sync, Answer(s)'
        PROVE  asked'[sync'[s].item] > 0
    <3>1. sync'[s].item = sync[s].item
      BY <1>1, TellFacts
    <3>2. CASE Answer(s)
      <4>1. sync[s].item \in Item /\ asked[sync[s].item] > 0
        BY <3>2 DEF QueueInv, Awaited, Stored, Answer
      <4> QED
        BY <1>6, <3>1, <4>1
    <3>3. CASE ~Answer(s)
      <4>1. s = k /\ sync[k].pc = "waiting"
        <5>1. ~(sync'[s].pc = sync[s].pc /\ sync'[s].ok = sync[s].ok)
          BY <2>1, <3>3 DEF Answer
        <5>2. \/ sync'[s].pc = sync[s].pc /\ sync'[s].ok = sync[s].ok
              \/ s = k /\ sync[s].pc = "waiting"
          BY <1>1, TellFacts
        <5> QED
          BY <5>1, <5>2
      <4>2. sync[k].item \in Item /\ chat[k].item = sync[k].item
        BY <4>1 DEF QueueInv, Awaited, Coming
      <4>3. chat[k].item # 0
        BY <4>2, VaultAssumption
      <4>4. asked'[chat[k].item] = asked[chat[k].item] + 1
        BY <4>2, <4>3 DEF Store, Mishap, TypeOK
      <4> QED
        BY <1>6, <3>1, <4>1, <4>2, <4>4
    <3> QED
      BY <3>2, <3>3
  <2>2. \A i \in Item : item'[i] = "executed" => asked'[i] > 0
    BY <1>1, <1>6 DEF QueueInv, Stored
  <2> QED
    BY <2>1, <2>2
<1> QED
  BY <1>7, <1>8, <1>9 DEF QueueInv, AllOnce

LEMMA AskOfflineInv ==
  ASSUME TypeOK, QueueInv, NEW h \in Item, AskOffline(h)
  PROVE  QueueInv'
<1>1. /\ UNCHANGED <<sync, chat, asked, crossed, mishap>>
      /\ item[h] = "none" /\ item' = [item EXCEPT ![h] = "queued_offline"]
  BY DEF AskOffline
<1>2. \A i \in Item : /\ item'[i] = item[i] \/ (i = h /\ item'[i] = "queued_offline")
  BY <1>1 DEF TypeOK
<1>3. AllOnce'
  BY <1>1, <1>2 DEF QueueInv, AllOnce, Once, Listed, Sending, Coming
<1>4. Awaited'
  BY <1>1 DEF QueueInv, Awaited, Coming
<1>5. Stored'
  BY <1>1, <1>2 DEF QueueInv, Stored, Answer
<1> QED
  BY <1>3, <1>4, <1>5 DEF QueueInv

LEMMA StartSyncInv ==
  ASSUME TypeOK, QueueInv, NEW s \in Sync, StartSync(s)
  PROVE  QueueInv'
<1>1. /\ UNCHANGED <<item, chat, asked, mishap>>
      /\ sync[s].pc = "idle"
      /\ sync' = [sync EXCEPT ![s].pc = "next", ![s].todo = Queued]
  BY DEF StartSync
<1>2. /\ \A t \in Sync \ {s} : sync'[t] = sync[t]
      /\ sync'[s].pc = "next" /\ sync'[s].todo = Queued
  BY <1>1 DEF TypeOK, Replay
<1>3. ASSUME NEW i \in Item \ crossed'
      PROVE  Once(i)'
  <2>1. i \notin crossed /\ (i \in Queued => \A t \in Sync \ {s} : ~Listed(t, i))
    BY <1>3 DEF StartSync, Listed
  <2>2. Once(i)
    BY <1>3, <2>1 DEF QueueInv, AllOnce
  <2>3. /\ \A k \in Caller : Coming(k, i)' = Coming(k, i)
        /\ \A t \in Sync : Sending(t, i)' => Sending(t, i) /\ t # s
        /\ \A t \in Sync \ {s} : Listed(t, i)' = Listed(t, i)
    BY <1>1, <1>2 DEF Coming, Sending, Listed
  <2>4. Listed(s, i)' <=> item[i] = "queued_offline"
    BY <1>2, <1>3 DEF Listed, Queued
  <2>5. CASE item[i] = "queued_offline"
    <3>1. \A t \in Sync : (Listed(t, i)' <=> t = s) /\ ~Sending(t, i)'
      BY <2>1, <2>2, <2>3, <2>4, <2>5, <1>3 DEF Once, Queued
    <3> QED
      BY <1>1, <2>2, <2>3, <2>5, <3>1 DEF Once
  <2>6. CASE item[i] # "queued_offline"
    <3>1. \A t \in Sync : (Listed(t, i)' => Listed(t, i)) /\ (Sending(t, i)' => Sending(t, i))
      BY <2>3, <2>4, <2>6
    <3> QED
      BY <1>1, <1>3, <2>2, <2>3, <3>1, OnceStays
  <2> QED
    BY <2>5, <2>6
<1>4. Awaited'
  BY <1>1, <1>2 DEF QueueInv, Awaited, Coming
<1>5. Stored'
  BY <1>1, <1>2 DEF QueueInv, Stored, Answer
<1> QED
  BY <1>3, <1>4, <1>5 DEF QueueInv, AllOnce

LEMMA MarkInv ==
  ASSUME TypeOK, QueueInv, NEW s \in Sync, Mark(s)
  PROVE  QueueInv'
<1>1. PICK h \in sync[s].todo :
        /\ item' = [item EXCEPT ![h] = "syncing"]
        /\ sync' = [sync EXCEPT ![s].pc = "sending", ![s].todo = @ \ {h}, ![s].item = h]
  BY DEF Mark
<1>2. UNCHANGED <<chat, asked, crossed, mishap>> /\ h \in Item /\ sync[s].pc = "next"
  BY <1>1 DEF Mark, TypeOK, Replay
<1>3. /\ \A t \in Sync \ {s} : sync'[t] = sync[t]
      /\ sync'[s].pc = "sending" /\ sync'[s].todo = sync[s].todo \ {h} /\ sync'[s].item = h
  BY <1>1 DEF TypeOK, Replay
<1>4. /\ item'[h] = "syncing"
      /\ \A i \in Item \ {h} : item'[i] = item[i]
  BY <1>1, <1>2 DEF TypeOK
<1>5. ASSUME NEW i \in Item \ crossed'
      PROVE  Once(i)'
  <2>1. Once(i)
    BY <1>2, <1>5 DEF QueueInv, AllOnce
  <2>2. \A k \in Caller : Coming(k, i)' = Coming(k, i)
    BY <1>2 DEF Coming
  <2>3. CASE i = h
    <3>1. /\ Listed(s, i) /\ ~Listed(s, i)' /\ Sending(s, i)'
          /\ \A t \in Sync \ {s} : /\ Listed(t, i)' = Listed(t, i)
                                   /\ Sending(t, i)' = Sending(t, i)
      BY <1>1, <1>3, <2>3 DEF Listed, Sending
    <3> QED
      BY <1>2, <1>4, <2>1, <2>2, <2>3, <3>1 DEF Once
  <2>4. CASE i # h
    <3>1. \A t \in Sync : (Listed(t, i)' => Listed(t, i)) /\ (Sending(t, i)' => Sending(t, i))
      BY <1>3, <2>4 DEF Listed, Sending
    <3> QED
      BY <1>2, <1>4, <1>5, <2>1, <2>2, <2>4, <3>1, OnceStays
  <2> QED
    BY <2>3, <2>4
<1>6. Awaited'
  BY <1>2, <1>3 DEF QueueInv, Awaited, Coming
<1>7. Stored'
  BY <1>2, <1>3, <1>4 DEF QueueInv, Stored, Answer
<1> QED
  BY <1>5, <1>6, <1>7 DEF QueueInv, AllOnce

LEMMA SendInv ==
  ASSUME TypeOK, QueueInv, NEW s \in Sync, Send(s)
  PROVE  QueueInv'
<1>1. /\ UNCHANGED <<item, asked, crossed, mishap>>
      /\ sync[s].pc = "sending" /\ chat[s].pc = "idle" /\ s \in Caller
      /\ chat' = [chat EXCEPT ![s] = Opened(sync[s].item)]
      /\ sync' = [sync EXCEPT ![s].pc = "waiting"]
  BY DEF Send, Caller
<1>2. /\ \A t \in Sync \ {s} : sync'[t] = sync[t]
      /\ sync'[s].pc = "waiting" /\ sync'[s].todo = sync[s].todo /\ sync'[s].item = sync[s].item
  BY <1>1 DEF TypeOK, Replay
<1>3. /\ \A k \in Caller \ {s} : chat'[k] = chat[k]
      /\ chat'[s].pc = "started" /\ chat'[s].item = sync[s].item
  BY <1>1 DEF TypeOK, Opened
<1>4. ASSUME NEW i \in Item \ crossed'
      PROVE  Once(i)'
  <2>1. Once(i)
    BY <1>1, <1>4 DEF QueueInv, AllOnce
  <2>2. \A t \in Sync : /\ Listed(t, i)' = Listed(t, i)
                        /\ Sending(t, i)' => Sending(t, i) /\ t # s
    BY <1>2 DEF Listed, Sending
  <2>3. \A k \in Caller : Coming(k, i)' <=> Coming(k, i) \/ (k = s /\ Sending(s, i))
    BY <1>1, <1>3 DEF Coming, Sending
  <2>4. CASE Sending(s, i)
    <3>1. \A t \in Sync : ~Listed(t, i)' /\ ~Sending(t, i)'
      BY <2>1, <2>2, <2>4 DEF Once
    <3>2. \A k \in Caller : Coming(k, i)' <=> k = s
      BY <2>1, <2>3, <2>4, <1>1 DEF Once
    <3>3. asked'[i] = 0 /\ item'[i] \notin {"none", "queued_offline"}
      BY <1>1, <2>1, <2>4 DEF Once
    <3> QED
      BY <3>1, <3>2, <3>3 DEF Once
  <2>5. CASE ~Sending(s, i)
    BY <1>1, <1>4, <2>1, <2>2, <2>3, <2>5, OnceStays
  <2> QED
    BY <2>4, <2>5
<1>5. Awaited'
  <2> SUFFICES ASSUME NEW t \in Sync
               PROVE  /\ sync'[t].pc \in {"sending", "waiting", "answered"} => sync'[t].item \in Item
                      /\ sync'[t].pc = "waiting" => Coming(t, sync[t].item)'
    BY DEF Awaited
  <2>1. CASE t = s
    BY <1>1, <1>2, <1>3, <2>1 DEF QueueInv, Awaited, Coming
  <2>2. CASE t # s
    BY <1>2, <1>3, <2>2 DEF QueueInv, Awaited, Coming, Caller
  <2> QED
    BY <2>1, <2>2
<1>6. Stored'
  BY <1>1, <1>2 DEF QueueInv, Stored, Answer
<1> QED
  BY <1>4, <1>5, <1>6 DEF QueueInv, AllOnce

LEMMA TakeAnswerInv ==
  ASSUME TypeOK, QueueInv, NEW s \in Sync, TakeAnswer(s)
  PROVE  QueueInv'
<1>1. UNCHANGED <<chat, asked, crossed, mishap>> /\ sync[s].pc = "answered"
  BY DEF TakeAnswer
<1>2. sync[s].item \in Item
  BY <1>1 DEF QueueInv, Awaited
<1>3. /\ \A t \in Sync \ {s} : sync'[t] = sync[t]
      /\ sync'[s].pc = "next" /\ sync'[s].todo = sync[s].todo
  BY DEF TakeAnswer, TypeOK, Replay
<1>4. /\ \A i \in Item \ {sync[s].item} : item'[i] = item[i]
      /\ item'[sync[s].item] \in {"executed", "failed"}
      /\ item'[sync[s].item] = "executed" => Answer(s)
  BY <1>1, <1>2 DEF TakeAnswer, TypeOK, Answer
<1>5. ASSUME NEW i \in Item \ crossed'
      PROVE  Once(i)'
  <2>1. Once(i)
    BY <1>1, <1>5 DEF QueueInv, AllOnce
  <2>2. \A t \in Sync : (Listed(t, i)' => Listed(t, i)) /\ (Sending(t, i)' => Sending(t, i))
    BY <1>3 DEF Listed, Sending
  <2>3. \A k \in Caller : Coming(k, i)' = Coming(k, i)
    BY <1>1 DEF Coming
  <2> QED
    BY <1>1, <1>4, <1>5, <2>1, <2>2, <2>3, OnceStays
<1>6. Awaited'
  BY <1>1, <1>3 DEF QueueInv, Awaited, Coming
<1>7. Stored'
  BY <1>1, <1>3, <1>4 DEF QueueInv, Stored, Answer
<1> QED
  BY <1>5, <1>6, <1>7 DEF QueueInv, AllOnce

\* A request that cannot be sent, and a replay that ends or dies.
LEMMA LeaveInv ==
  ASSUME TypeOK, QueueInv, NEW s \in Sync, mishap \subseteq mishap',
         CannotSend(s) \/ EndSync(s) \/ TabCloses(s)
  PROVE  QueueInv'
<1>1. UNCHANGED <<item, chat, asked, crossed>>
  BY DEF CannotSend, EndSync, TabCloses
<1>2. /\ \A t \in Sync \ {s} : sync'[t] = sync[t]
      /\ sync'[s].pc = "idle" \/ /\ sync'[s].pc = "answered" /\ sync'[s].ok = FALSE
                                 /\ sync[s].pc = "sending" /\ sync'[s].item = sync[s].item
      /\ sync'[s].todo \subseteq sync[s].todo
  BY DEF CannotSend, EndSync, TabCloses, NoReplay, TypeOK, Replay
<1>3. \A t \in Sync, i \in Item : /\ Listed(t, i)' => Listed(t, i)
                                  /\ Sending(t, i)' => Sending(t, i)
  BY <1>2 DEF Listed, Sending
<1>4. \A k \in Caller, i \in Item : Coming(k, i)' = Coming(k, i)
  BY <1>1 DEF Coming
<1>5. AllOnce'
  BY <1>1, <1>3, <1>4, OnceStays DEF QueueInv, AllOnce
<1>6. Awaited'
  BY <1>1, <1>2 DEF QueueInv, Awaited, Coming
<1>7. Stored'
  BY <1>1, <1>2 DEF QueueInv, Stored, Answer
<1> QED
  BY <1>5, <1>6, <1>7 DEF QueueInv

LEMMA GoOfflineInv ==
  ASSUME TypeOK, QueueInv, mishap \subseteq mishap', GoOffline
  PROVE  QueueInv'
<1>1. UNCHANGED <<item, chat, asked, crossed>>
  BY DEF GoOffline
<1>2. \A s \in Sync :
        \/ sync'[s] = sync[s] /\ sync[s].pc # "waiting"
        \/ /\ sync[s].pc = "waiting" /\ sync'[s].pc = "answered" /\ sync'[s].ok = FALSE
           /\ sync'[s].todo = sync[s].todo /\ sync'[s].item = sync[s].item
  BY DEF GoOffline, TypeOK, Replay
<1>3. \A t \in Sync, i \in Item : /\ Listed(t, i)' => Listed(t, i)
                                  /\ Sending(t, i)' => Sending(t, i)
  BY <1>2 DEF Listed, Sending
<1>4. \A k \in Caller, i \in Item : Coming(k, i)' = Coming(k, i)
  BY <1>1 DEF Coming
<1>5. AllOnce'
  BY <1>1, <1>3, <1>4, OnceStays DEF QueueInv, AllOnce
<1>6. Awaited'
  BY <1>1, <1>2 DEF QueueInv, Awaited, Coming
<1>7. Stored'
  BY <1>1, <1>2 DEF QueueInv, Stored, Answer
<1> QED
  BY <1>5, <1>6, <1>7 DEF QueueInv

LEMMA QueueStays ==
  ASSUME QueueInv, mishap \subseteq mishap', UNCHANGED <<item, sync, chat, asked, crossed>>
  PROVE  QueueInv'
BY DEF QueueInv, AllOnce, Once, Listed, Sending, Coming, Awaited, Stored, Answer

LEMMA QueueStep ==
  ASSUME TypeOK, QueueInv, [Next]_vars
  PROVE  QueueInv'
<1>0. mishap \subseteq mishap' /\ User \subseteq Caller
  BY MishapsStay DEF Caller
<1>1. ASSUME NEW k \in Caller, (k \in User /\ UserAsks(k)) \/ ChatStep(k) \/ ChatDies(k)
      PROVE  QueueInv'
  BY <1>0, <1>1, ChatInv, RefuseInv, StoreInv DEF ChatStep
<1>2. ASSUME NEW s \in Sync, StartSync(s) \/ SyncStep(s) \/ TabCloses(s)
      PROVE  QueueInv'
  BY <1>0, <1>2, StartSyncInv, MarkInv, SendInv, TakeAnswerInv, LeaveInv DEF SyncStep
<1>3. ASSUME NEW i \in Item, AskOffline(i)
      PROVE  QueueInv'
  BY <1>3, AskOfflineInv
<1>4. CASE GoOffline
  BY <1>0, <1>4, GoOfflineInv
<1>5. ASSUME NEW r \in Request,
             (\E a \in Action : Confirm(r, a)) \/ ConfirmStep(r) \/ RequestDies(r)
      PROVE  UNCHANGED <<item, sync, chat, asked, crossed>>
  BY <1>5 DEF Confirm, ConfirmStep, Judge, Reject, MarkConfirmed, Run, Record, Audit,
              RequestDies, browser
<1>6. ASSUME \/ \E a \in Action : Cancel(a)
             \/ Forget \/ ProfileChanges \/ GoOnline
             \/ UNCHANGED vars
      PROVE  UNCHANGED <<item, sync, chat, asked, crossed>>
  BY <1>6 DEF Cancel, Forget, ProfileChanges, GoOnline, browser, vars
<1>7. CASE UNCHANGED <<item, sync, chat, asked, crossed>>
  BY <1>0, <1>7, QueueStays
<1> QED
  BY <1>0, <1>1, <1>2, <1>3, <1>4, <1>5, <1>6, <1>7 DEF Next

LEMMA InitQueue == Init => QueueInv
<1> SUFFICES ASSUME Init PROVE QueueInv
  OBVIOUS
<1>1. /\ \A k \in Caller, i \in Item : ~Coming(k, i)
      /\ \A s \in Sync : sync[s].pc = "idle" /\ sync[s].todo = {}
  BY DEF Init, NoChat, NoReplay, Coming
<1>2. \A s \in Sync, i \in Item : ~Listed(s, i) /\ ~Sending(s, i)
  BY <1>1 DEF Listed, Sending
<1>3. \A i \in Item : asked[i] = IF item[i] = "none" THEN 0 ELSE 1
  BY DEF Init
<1>4. \A i \in Item : item[i] \in {"none", "executed"}
  BY DEF Init
<1>5. AllOnce
  BY <1>1, <1>2, <1>3, <1>4 DEF AllOnce, Once
<1>6. Awaited /\ Stored
  BY <1>1, <1>3 DEF Awaited, Stored, Answer
<1> QED
  BY <1>5, <1>6 DEF QueueInv

LEMMA QueueInvariant == Spec => []QueueInv
BY InitTypes, TypesStep, InitQueue, QueueStep, PTL DEF Spec

\* An item is sent once, lost answers and closed tabs included, unless two
\* replays have read it.
THEOREM ItemIsAskedOnce == Spec => []AskedOnce
<1>1. QueueInv => AskedOnce
  BY DEF QueueInv, AllOnce, Once, AskedOnce
<1> QED
  BY <1>1, QueueInvariant, PTL

\* An item that counts as executed has its message stored, unless an insert
\* failed.
THEOREM ExecutedIsAsked == Spec => []ExecutedWasAsked
<1>1. QueueInv => ExecutedWasAsked
  BY DEF QueueInv, Stored, ExecutedWasAsked
<1> QED
  BY <1>1, QueueInvariant, PTL
=============================================================================
