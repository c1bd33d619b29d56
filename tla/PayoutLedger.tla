---------------------------- MODULE PayoutLedger ----------------------------
(***************************************************************************)
(* What the payout code promises about money, without requests, awaits or  *)
(* Stripe: a reward is authorised by a human, then moved in a transfer     *)
(* that covers authorised rewards only, and only then settled.             *)
(***************************************************************************)
CONSTANT Reward

VARIABLES
    authorised,   \* rewards a human has approved
    moved,        \* the transfers made, each the set of rewards it pays
    settled       \* rewards shown as paid

ledgerVars == <<authorised, moved, settled>>

LedgerInit == authorised = {} /\ moved = {} /\ settled = {}

Authorise(r) ==
    /\ authorised' = authorised \union {r}
    /\ UNCHANGED <<moved, settled>>

Move(S) ==
    /\ S \subseteq authorised
    /\ moved' = moved \union {S}
    /\ UNCHANGED <<authorised, settled>>

Settle(S) ==
    /\ S \in moved
    /\ settled' = settled \union S
    /\ UNCHANGED <<authorised, moved>>

\* A paid reward is approved again or declined.
Reopen(r) ==
    /\ settled' = settled \ {r}
    /\ UNCHANGED <<authorised, moved>>

LedgerNext ==
    \/ \E r \in Reward : Authorise(r) \/ Reopen(r)
    \/ \E S \in SUBSET Reward : Move(S) \/ Settle(S)

LedgerSpec == LedgerInit /\ [][LedgerNext]_ledgerVars
=============================================================================
