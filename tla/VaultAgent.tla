----------------------------- MODULE VaultAgent -----------------------------
(***************************************************************************)
(* VAULT, the assistant (app/api/vault, lib/ai/vault-actions.ts,           *)
(* lib/agent/sync-queue.ts, components/vault): chat requests under a       *)
(* monthly quota, the actions they propose and a user confirms or cancels, *)
(* and the queue of actions asked for offline, which the browser sends as  *)
(* chat requests once it is online again.                                  *)
(*                                                                         *)
(* A request is a sequence of database calls, and others run between any   *)
(* two of them.  An action of this module is one such call with what the   *)
(* code does up to the next.                                               *)
(***************************************************************************)
EXTENDS Naturals, FiniteSets

CONSTANTS
    User,     \* chat requests of the user that may be open at a time
    Sync,     \* replays that may run at a time: the widget's of each tab,
              \* which isSyncing keeps to one, and those of "online" events
    Item,     \* rows of pendingActionQueue, numbered in their order
    Action,   \* rows of vault_actions
    Request,  \* confirmations that may be under way at a time
    Limit,    \* ai_triage_requests_monthly of the organization
    Hazards,  \* the mishaps that may happen, once each
    MaxMishaps \* at most so many

Caller == User \union Sync

MishapKinds == {"crash",  \* a request or a browser tab dies
                "db",     \* a database call fails, which no caller notices
                "net"}    \* the browser is cut off

ASSUME VaultAssumption ==
    /\ IsFiniteSet(Caller)
    /\ User # {}
    /\ User \cap Sync = {}
    /\ IsFiniteSet(Request)
    /\ Item \subseteq Nat \ {0}
    /\ Limit \in Nat
    /\ Hazards \subseteq MishapKinds
    /\ MaxMishaps \in Nat

VARIABLES
    may,     \* [profile] Agent Mode is on and the role allows the actions
    used,    \* vault_messages: the user's messages of this month
    chat,    \* requests to /api/vault/chat
    status,  \* vault_actions.status
    request, \* requests to /api/vault/execute-action
    online,  \* the browser has a connection
    item,    \* pendingActionQueue: status of each item
    sync,    \* the replays that run
    runs,    \* history: how often executeAction was called for an action
    audit,   \* audit_logs: entries about an action
    asked,   \* history: messages stored on behalf of an item
    raced,   \* history: actions that were confirmed or cancelled at once
    crossed, \* history: items that two replays have read
    mishap   \* history: what has gone wrong

server  == <<may, used, status, request, runs, audit, raced>>
browser == <<online, item, sync, crossed>>
vars    == <<server, browser, chat, asked, mishap>>

\* may is what the request found in the profile, for the item it was sent for
\* (0 for none).
Chat    == [pc : {"idle", "started", "counted", "open"}, may : BOOLEAN,
            item : Item \union {0}]
NoChat  == [pc |-> "idle", may |-> FALSE, item |-> 0]

Busy    == {"read", "judged", "confirmed", "ran", "recorded"}
Confirmation == [pc : Busy, action : Action, ok : BOOLEAN]
Idle    == [pc |-> "idle"]

\* todo is what the replay read and has not taken up, item its current one.
Replay  == [pc : {"idle", "next", "sending", "waiting", "answered"},
            todo : SUBSET Item, item : Item \union {0}, ok : BOOLEAN]
NoReplay == [pc |-> "idle", todo |-> {}, item |-> 0, ok |-> FALSE]

\* Actions and items of earlier months are done with.
Init ==
    /\ may \in BOOLEAN
    /\ used = 0
    /\ chat = [k \in Caller |-> NoChat]
    /\ status \in [Action -> {"none", "executed"}]
    /\ request = [r \in Request |-> Idle]
    /\ online \in BOOLEAN
    /\ item \in [Item -> {"none", "executed"}]
    /\ sync = [s \in Sync |-> NoReplay]
    /\ runs = [a \in Action |-> IF status[a] = "none" THEN 0 ELSE 1]
    /\ audit = runs
    /\ asked = [i \in Item |-> IF item[i] = "none" THEN 0 ELSE 1]
    /\ raced = {}
    /\ crossed = {}
    /\ mishap = {}

Mishap(k) == /\ k \in Hazards \ mishap
             /\ Cardinality(mishap) < MaxMishaps
             /\ mishap' = mishap \union {k}

(***************************************************************************)
(* Chat requests.                                                          *)
(***************************************************************************)

\* The profile is read when the request arrives.
Opened(i) == [pc |-> "started", may |-> may, item |-> i]

UserAsks(k) ==
    /\ online
    /\ chat[k].pc = "idle"
    /\ chat' = [chat EXCEPT ![k] = Opened(0)]
    /\ UNCHANGED <<server, browser, asked, mishap>>

\* The answer to a replay, if it still waits.
Tell(k, ok) ==
    sync' = IF k \in Sync /\ sync[k].pc = "waiting"
            THEN [sync EXCEPT ![k].pc = "answered", ![k].ok = ok] ELSE sync

\* Mutant: the limit itself still passes.
CountLoosely(k) ==
    /\ chat[k].pc = "started"
    /\ \/ used <= Limit /\ UNCHANGED mishap
       \/ 0 < Limit /\ Mishap("db")
    /\ chat' = [chat EXCEPT ![k].pc = "counted"]
    /\ UNCHANGED <<server, browser, asked>>

\* checkEntitlement: this month's messages are below the limit.  A count that
\* fails is taken for zero.
Count(k) ==
    /\ chat[k].pc = "started"
    /\ \/ used < Limit /\ UNCHANGED mishap
       \/ 0 < Limit /\ Mishap("db")
    /\ chat' = [chat EXCEPT ![k].pc = "counted"]
    /\ UNCHANGED <<server, browser, asked>>

\* AI_LIMIT_EXCEEDED.
Refuse(k) ==
    /\ chat[k].pc = "started"
    /\ used >= Limit
    /\ chat' = [chat EXCEPT ![k] = NoChat]
    /\ Tell(k, FALSE)
    /\ UNCHANGED <<server, online, item, crossed, asked, mishap>>

\* The message is stored, and the response begins, even if the insert failed,
\* as it does when the conversation has been deleted meanwhile.  A replay's
\* message begins a conversation of its own.
Store(k) ==
    /\ chat[k].pc = "counted"
    /\ \/ /\ used' = used + 1
          /\ asked' = [i \in Item |-> asked[i] + IF i = chat[k].item THEN 1 ELSE 0]
          /\ UNCHANGED mishap
       \/ /\ UNCHANGED <<used, asked>>
          /\ \/ chat[k].item = 0 /\ UNCHANGED mishap
             \/ Mishap("db")
    /\ chat' = [chat EXCEPT ![k].pc = "open"]
    /\ Tell(k, TRUE)
    /\ UNCHANGED <<may, status, request, runs, audit, raced, online, item, crossed>>

\* The model has answered, or failed.  A valid action block of a user who was
\* allowed to act becomes a proposal.
StreamEnds(k) ==
    /\ chat[k].pc = "open"
    /\ chat' = [chat EXCEPT ![k] = NoChat]
    /\ \/ UNCHANGED status
       \/ /\ chat[k].may
          /\ \E a \in Action : /\ status[a] = "none"
                               /\ status' = [status EXCEPT ![a] = "proposed"]
    /\ UNCHANGED <<may, used, request, runs, audit, raced, browser, asked, mishap>>

\* The process that serves a request dies.
ChatDies(k) ==
    /\ chat[k].pc # "idle"
    /\ Mishap("crash")
    /\ chat' = [chat EXCEPT ![k] = NoChat]
    /\ Tell(k, FALSE)
    /\ UNCHANGED <<server, online, item, crossed, asked>>

\* deleteVaultConversation: its messages are counted no more.
Forget ==
    /\ \E n \in 1 .. used : used' = used - n
    /\ UNCHANGED <<may, status, request, runs, audit, raced, browser, chat, asked, mishap>>

(***************************************************************************)
(* Confirming and cancelling.                                              *)
(***************************************************************************)

\* A confirmation of action a is under way.
UnderWay(a) == \E r \in Request : request[r].pc # "idle" /\ request[r].action = a

\* An update of the action's status; its error is not looked at.
Save(a, st) ==
    \/ status' = [status EXCEPT ![a] = st] /\ UNCHANGED mishap
    \/ UNCHANGED status /\ Mishap("db")

Advance(r, pc) == request' = [request EXCEPT ![r].pc = pc]
Ends(r)        == request' = [request EXCEPT ![r] = Idle]

\* Mutant: the status is not looked at.
ConfirmAny(r, a) ==
    /\ request[r].pc = "idle"
    /\ status[a] # "none"
    /\ request' = [request EXCEPT ![r] = [pc |-> "read", action |-> a, ok |-> FALSE]]
    /\ raced' = IF UnderWay(a) THEN raced \union {a} ELSE raced
    /\ UNCHANGED <<may, used, status, runs, audit, browser, chat, asked, mishap>>

\* Only a proposed action can be confirmed.
Confirm(r, a) ==
    /\ request[r].pc = "idle"
    /\ status[a] = "proposed"
    /\ request' = [request EXCEPT ![r] = [pc |-> "read", action |-> a, ok |-> FALSE]]
    /\ raced' = IF UnderWay(a) THEN raced \union {a} ELSE raced
    /\ UNCHANGED <<may, used, status, runs, audit, browser, chat, asked, mishap>>

\* The profile as it is now decides; a profile that cannot be read passes for
\* a researcher with Agent Mode on.
Judge(r) ==
    /\ request[r].pc = "read"
    /\ \E ok \in BOOLEAN :
          /\ \/ ok = may /\ UNCHANGED mishap
             \/ Mishap("db")
          /\ request' = [request EXCEPT ![r].pc = "judged", ![r].ok = ok]
    /\ UNCHANGED <<may, used, status, runs, audit, raced, browser, chat, asked>>

\* Mutant: a status that the table's check constraint does not know.
RejectAsRejected(r) ==
    /\ request[r].pc = "judged"
    /\ ~request[r].ok
    /\ Save(request[r].action, "rejected")
    /\ Ends(r)
    /\ UNCHANGED <<may, used, runs, audit, raced, browser, chat, asked>>

\* The proposal is withdrawn.
Reject(r) ==
    /\ request[r].pc = "judged"
    /\ ~request[r].ok
    /\ Save(request[r].action, "cancelled")
    /\ Ends(r)
    /\ UNCHANGED <<may, used, runs, audit, raced, browser, chat, asked>>

MarkConfirmed(r) ==
    /\ request[r].pc = "judged"
    /\ request[r].ok
    /\ Save(request[r].action, "confirmed")
    /\ Advance(r, "confirmed")
    /\ UNCHANGED <<may, used, runs, audit, raced, browser, chat, asked>>

\* executeAction, which may succeed, throw, or report the success of something
\* that was refused.
Run(r) ==
    LET a == request[r].action IN
    /\ request[r].pc = "confirmed"
    /\ runs' = [runs EXCEPT ![a] = @ + 1]
    /\ \E ok \in BOOLEAN :
          request' = [request EXCEPT ![r].pc = "ran", ![r].ok = ok]
    /\ UNCHANGED <<may, used, status, audit, raced, browser, chat, asked, mishap>>

\* Mutant: only a success is recorded.
RecordSuccess(r) ==
    /\ request[r].pc = "ran"
    /\ IF request[r].ok THEN Save(request[r].action, "executed")
       ELSE UNCHANGED <<status, mishap>>
    /\ Advance(r, "recorded")
    /\ UNCHANGED <<may, used, runs, audit, raced, browser, chat, asked>>

Record(r) ==
    /\ request[r].pc = "ran"
    /\ Save(request[r].action, IF request[r].ok THEN "executed" ELSE "failed")
    /\ Advance(r, "recorded")
    /\ UNCHANGED <<may, used, runs, audit, raced, browser, chat, asked>>

\* Mutant: only a success is audited.
AuditSuccess(r) ==
    LET a == request[r].action IN
    /\ request[r].pc = "recorded"
    /\ audit' = [audit EXCEPT ![a] = @ + IF request[r].ok THEN 1 ELSE 0]
    /\ Ends(r)
    /\ UNCHANGED <<may, used, status, runs, raced, browser, chat, asked, mishap>>

Audit(r) ==
    LET a == request[r].action IN
    /\ request[r].pc = "recorded"
    /\ \/ audit' = [audit EXCEPT ![a] = @ + 1] /\ UNCHANGED mishap
       \/ UNCHANGED audit /\ Mishap("db")
    /\ Ends(r)
    /\ UNCHANGED <<may, used, status, runs, raced, browser, chat, asked>>

\* The process that serves a confirmation dies.
RequestDies(r) ==
    /\ request[r].pc # "idle"
    /\ Mishap("crash")
    /\ Ends(r)
    /\ UNCHANGED <<may, used, status, runs, audit, raced, browser, chat, asked>>

\* Mutant: whatever the status is.
CancelAny(a) ==
    /\ status[a] # "none"
    /\ status' = [status EXCEPT ![a] = "cancelled"]
    /\ raced' = IF UnderWay(a) THEN raced \union {a} ELSE raced
    /\ UNCHANGED <<may, used, request, runs, audit, browser, chat, asked, mishap>>

\* cancelVaultAction, in one statement.
Cancel(a) ==
    /\ status[a] = "proposed"
    /\ status' = [status EXCEPT ![a] = "cancelled"]
    /\ raced' = IF UnderWay(a) THEN raced \union {a} ELSE raced
    /\ UNCHANGED <<may, used, request, runs, audit, browser, chat, asked, mishap>>

\* Agent Mode is switched, or the user's role changes.
ProfileChanges ==
    /\ may' = ~may
    /\ UNCHANGED <<used, status, request, runs, audit, raced, browser, chat, asked, mishap>>

(***************************************************************************)
(* The queue of the browser.                                               *)
(***************************************************************************)

\* The widget without a connection keeps what the user asks for.
AskOffline(i) ==
    /\ ~online
    /\ item[i] = "none"
    /\ \A h \in Item : h < i => item[h] # "none"
    /\ item' = [item EXCEPT ![i] = "queued_offline"]
    /\ UNCHANGED <<server, online, sync, crossed, chat, asked, mishap>>

Queued == {i \in Item : item[i] = "queued_offline"}

\* syncPendingActions reads the queue, once.
StartSync(s) ==
    /\ online
    /\ sync[s].pc = "idle"
    /\ Queued # {}
    /\ sync' = [sync EXCEPT ![s].pc = "next", ![s].todo = Queued]
    /\ crossed' = crossed \union {i \in Queued : \E t \in Sync \ {s} : i \in sync[t].todo}
    /\ UNCHANGED <<server, online, item, chat, asked, mishap>>

\* The next item it has read is marked, whatever its status is by now.
Mark(s) ==
    /\ sync[s].pc = "next"
    /\ \E i \in sync[s].todo :
          /\ \A h \in sync[s].todo : i <= h
          /\ item' = [item EXCEPT ![i] = "syncing"]
          /\ sync' = [sync EXCEPT ![s].pc = "sending", ![s].todo = @ \ {i}, ![s].item = i]
    /\ UNCHANGED <<server, online, crossed, chat, asked, mishap>>

Send(s) ==
    /\ sync[s].pc = "sending"
    /\ online
    /\ chat[s].pc = "idle"
    /\ chat' = [chat EXCEPT ![s] = Opened(sync[s].item)]
    /\ sync' = [sync EXCEPT ![s].pc = "waiting"]
    /\ UNCHANGED <<server, online, item, crossed, asked, mishap>>

\* fetch throws.
CannotSend(s) ==
    /\ sync[s].pc = "sending"
    /\ ~online
    /\ sync' = [sync EXCEPT ![s].pc = "answered", ![s].ok = FALSE]
    /\ UNCHANGED <<server, online, item, crossed, chat, asked, mishap>>

\* Mutant: the status of the response is not looked at.
TakeAnyAnswer(s) ==
    /\ sync[s].pc = "answered"
    /\ item' = [item EXCEPT ![sync[s].item] = "executed"]
    /\ sync' = [sync EXCEPT ![s].pc = "next"]
    /\ UNCHANGED <<server, online, crossed, chat, asked, mishap>>

\* Mutant: what failed is queued again.
TakeAnswerAgain(s) ==
    /\ sync[s].pc = "answered"
    /\ item' = [item EXCEPT ![sync[s].item] = IF sync[s].ok THEN "executed" ELSE "queued_offline"]
    /\ sync' = [sync EXCEPT ![s].pc = "next"]
    /\ UNCHANGED <<server, online, crossed, chat, asked, mishap>>

\* Mutant: a failure ends the loop, without resetting isSyncing.
TakeOnlyGood(s) ==
    /\ sync[s].pc = "answered"
    /\ sync[s].ok
    /\ item' = [item EXCEPT ![sync[s].item] = "executed"]
    /\ sync' = [sync EXCEPT ![s].pc = "next"]
    /\ UNCHANGED <<server, online, crossed, chat, asked, mishap>>

\* The item counts as executed once the response begins, failed otherwise.
TakeAnswer(s) ==
    /\ sync[s].pc = "answered"
    /\ item' = [item EXCEPT ![sync[s].item] = IF sync[s].ok THEN "executed" ELSE "failed"]
    /\ sync' = [sync EXCEPT ![s].pc = "next"]
    /\ UNCHANGED <<server, online, crossed, chat, asked, mishap>>

EndSync(s) ==
    /\ sync[s].pc = "next"
    /\ sync[s].todo = {}
    /\ sync' = [sync EXCEPT ![s] = NoReplay]
    /\ UNCHANGED <<server, online, item, crossed, chat, asked, mishap>>

\* A tab is closed or reloaded.  What it has sent goes on.
TabCloses(s) ==
    /\ sync[s].pc # "idle"
    /\ Mishap("crash")
    /\ sync' = [sync EXCEPT ![s] = NoReplay]
    /\ UNCHANGED <<server, online, item, crossed, chat, asked>>

\* Answers that are awaited are lost.
GoOffline ==
    /\ online
    /\ Mishap("net")
    /\ online' = FALSE
    /\ sync' = [s \in Sync |-> IF sync[s].pc = "waiting"
                               THEN [sync[s] EXCEPT !.pc = "answered", !.ok = FALSE]
                               ELSE sync[s]]
    /\ UNCHANGED <<server, item, crossed, chat, asked>>

GoOnline ==
    /\ ~online
    /\ online' = TRUE
    /\ UNCHANGED <<server, item, sync, crossed, chat, asked, mishap>>

ChatStep(k)    == Count(k) \/ Refuse(k) \/ Store(k) \/ StreamEnds(k)
ConfirmStep(r) == Judge(r) \/ Reject(r) \/ MarkConfirmed(r) \/ Run(r) \/ Record(r) \/ Audit(r)
SyncStep(s)    == Mark(s) \/ Send(s) \/ CannotSend(s) \/ TakeAnswer(s) \/ EndSync(s)

Next == \/ \E k \in User : UserAsks(k)
        \/ \E k \in Caller : ChatStep(k) \/ ChatDies(k)
        \/ \E r \in Request : \/ \E a \in Action : Confirm(r, a)
                              \/ ConfirmStep(r)
                              \/ RequestDies(r)
        \/ \E a \in Action : Cancel(a)
        \/ \E i \in Item : AskOffline(i)
        \/ \E s \in Sync : StartSync(s) \/ SyncStep(s) \/ TabCloses(s)
        \/ Forget \/ ProfileChanges \/ GoOffline \/ GoOnline

Spec == Init /\ [][Next]_vars

\* Requests and replays go on by themselves, the widget starts a replay when
\* it is online and none of its own runs, and a lost connection comes back.
Fairness == /\ \A k \in Caller : WF_vars(ChatStep(k))
            /\ \A r \in Request : WF_vars(ConfirmStep(r))
            /\ \A s \in Sync : WF_vars(SyncStep(s))
            /\ WF_vars(\E s \in Sync : StartSync(s))
            /\ WF_vars(GoOnline)

FairSpec == Spec /\ Fairness

(***************************************************************************)
(* Properties.                                                             *)
(***************************************************************************)

TypeOK ==
    /\ may \in BOOLEAN
    /\ used \in Nat
    /\ chat \in [Caller -> Chat]
    /\ status \in [Action -> {"none", "proposed", "confirmed", "executed", "failed", "cancelled"}]
    /\ request \in [Request -> Confirmation \union {Idle}]
    /\ online \in BOOLEAN
    /\ item \in [Item -> {"none", "queued_offline", "syncing", "failed", "executed"}]
    /\ sync \in [Sync -> Replay]
    /\ runs \in [Action -> Nat]
    /\ audit \in [Action -> Nat]
    /\ asked \in [Item -> Nat]
    /\ raced \subseteq Action
    /\ crossed \subseteq Item
    /\ mishap \subseteq MishapKinds

\* The monthly quota is counted before the message is stored.  Requests that
\* overlap pass it together, but never by more than all of them but one.
QuotaHeld == "db" \notin mishap => used < Limit + Cardinality(Caller)

\* "Cancelled - nothing was executed" (vault-action-card.tsx): unless two
\* requests were at one action at once or an update was lost, an action runs
\* at most once, crashes included, it has run if it is executed or failed, and
\* it never will have if it is proposed or cancelled.
RunsMatchStatus ==
    \A a \in Action \ raced : "db" \notin mishap =>
        /\ runs[a] <= 1
        /\ status[a] \in {"executed", "failed"} => runs[a] = 1
        /\ status[a] \in {"proposed", "cancelled"} => runs[a] = 0

\* Every execution leaves its entry in audit_logs, the failed and the
\* overlapping ones too, unless the request died or the insert failed.
RunsAudited ==
    mishap \subseteq {"net"} =>
        \A a \in Action : ~UnderWay(a) => audit[a] = runs[a]

\* An item that counts as executed has been sent: its message is stored.
ExecutedWasAsked ==
    "db" \notin mishap => \A i \in Item : item[i] = "executed" => asked[i] > 0

\* An item is sent once, lost answers and closed tabs included, unless two
\* replays have read it.
AskedOnce == \A i \in Item \ crossed : asked[i] <= 1

\* A decided action stays decided unless two requests were at it at once.
FinalIsFinal ==
    [][\A a \in Action \ raced' :
          status[a] \in {"executed", "failed", "cancelled"} => status'[a] = status[a]]_vars

\* A confirmed action is decided, unless its request died or an update failed.
ConfirmedEnds ==
    \A a \in Action :
        status[a] = "confirmed" ~> status[a] # "confirmed" \/ mishap \cap {"crash", "db"} # {}

\* What was queued offline is sent, or known to have failed, once the
\* connection is back, unless a tab is closed on the way.
QueueDrains ==
    \A i \in Item : item[i] \in {"queued_offline", "syncing"} ~>
                       item[i] \in {"executed", "failed"} \/ "crash" \in mishap
=============================================================================
