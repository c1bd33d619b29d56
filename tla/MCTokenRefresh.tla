--------------------------- MODULE MCTokenRefresh ---------------------------
(***************************************************************************)
(* Instances of TokenRefresh for TLC.                                      *)
(***************************************************************************)
EXTENDS TokenRefresh

CONSTANTS c1, c2, k1, g1, g2, j1, j2

\* k1 is an account of kiro, whose lane the others do not share.
TwoGroups == [c \in Conn |-> IF c = k1 THEN g2 ELSE g1]

\* All kinds of callers and all mishaps visit the first connection.  The second
\* contributes its turns in the lane: its calls fail or are refused.
AllOfFirst == [c \in Conn |-> CASE c = c1 -> AllKinds
                                [] c = c2 -> {"proactive"}
                                [] c = k1 -> AllKinds \ {"proactive"}]

AllToFirst == [c \in Conn |-> CASE c = c1 -> HazardKinds
                                [] c = c2 -> {"crash", "blip"}
                                [] c = k1 -> {"crash", "timeout"}]
NoHazards  == [c \in Conn |-> {}]

Tokens == [c \in Conn |-> CASE c = c1 -> 3 [] c = c2 -> 1 [] c = k1 -> 2]

\* Something has happened to an account of group g.
Touched(g) == \E c \in Conn :
    /\ GroupOf[c] = g
    /\ \/ row[c] # [tok |-> 1, fresh |-> TRUE, active |-> TRUE]
       \/ mishap[c] \ {"crash"} # {}

\* Groups share nothing but the process: one of them is watched at a time.
OneGroupAtWork == ~(Touched(g1) /\ Touched(g2))

\* Less fairness than FairSpec has.  It is enough here, where callers of kiro are
\* the only ones that come and go while a refresh of their connection waits.
MCSpec == /\ Spec
          /\ \A j \in Job : WF_vars(CallerStep(j))
          /\ \A c \in Conn \ Direct : WF_vars(FlightStep(c))
          /\ \A c \in Direct : SF_vars(FlightStep(c))
=============================================================================
