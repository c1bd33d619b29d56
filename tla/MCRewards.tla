----------------------------- MODULE MCRewards -----------------------------
(***************************************************************************)
(* Instances of Rewards for TLC.                                           *)
(***************************************************************************)
EXTENDS Rewards, TLC

CONSTANTS a, b, s, c1, c2, alice, bob, usd, eur, web

\* Requests are interchangeable.
SymmetricCalls == Permutations(Call)

\* Two rewards of one researcher in two programs of one owner: alone each
\* may be below the threshold, together they reach it.
OneOwner      == [r \in Reward |-> alice]
OnePayee      == [r \in Reward |-> usd]
OneProgram    == [r \in Reward |-> web]
UnequalAmount == [r \in Reward |-> IF r = a THEN 1 ELSE 2]

TwoEach       == [r \in Reward |-> 2]

\* Reward b is in another currency.
TwoPayees     == [r \in Reward |-> IF r = b THEN eur ELSE usd]
=============================================================================
