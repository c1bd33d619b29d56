---------------------------- MODULE MCVaultAgent ----------------------------
(***************************************************************************)
(* Instances of VaultAgent for TLC.                                        *)
(***************************************************************************)
EXTENDS VaultAgent

CONSTANTS u1, s1, s2, a1, r1, r2

\* The confirmations and the queue touch each other only where a chat request
\* proposes an action.  A behaviour has either actions or items that are not
\* done with, or TLC would multiply the states of the one by the other's.
MCInit ==
    /\ Init
    /\ \/ \A a \in Action : status[a] = "executed"
       \/ online /\ \A i \in Item : item[i] = "executed"

MCSpec == MCInit /\ [][Next]_vars /\ Fairness
=============================================================================
