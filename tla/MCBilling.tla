----------------------------- MODULE MCBilling -----------------------------
(***************************************************************************)
(* Instances of Billing for TLC.                                           *)
(***************************************************************************)
EXTENDS Billing, TLC

CONSTANTS o1, s1, s2, c1, c2, pro, max

\* Requests are interchangeable.
SymmetricCalls == Permutations(Call)

AllOfOne == [s \in Sub |-> o1]
=============================================================================
