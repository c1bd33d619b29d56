------------------------ MODULE RewardsTotalsProofs ------------------------
(***************************************************************************)
(* The counters of the programs: total_paid is the sum of the paid rewards *)
(* whenever no request is running.  The first part shows that PoolTotal,   *)
(* which the model takes from the community modules, adds up what it is    *)
(* given, in whatever order; the second follows the counters.              *)
(***************************************************************************)
EXTENDS RewardsProofs, FiniteSetTheorems, WellFoundedInduction

(***************************************************************************)
(* Sums.  An induction over the finite sets of rewards is the choice of a  *)
(* smallest set where the claim fails.                                     *)
(***************************************************************************)

LEMMA SmallestSet ==
    ASSUME NEW T \in SUBSET (SUBSET Reward), T # {}
    PROVE  \E U \in T : \A V \in T : V \subseteq U => V = U
<1>1. IsWellFoundedOn(StrictSubsetOrdering(Reward), SUBSET Reward)
  BY RewardsFinite, FS_StrictSubsetOrderingWellFounded, FS_FiniteSubsetsOfFinite
<1>2. PICK U \in T : \A V \in T : ~ (<<V, U>> \in StrictSubsetOrdering(Reward))
  BY <1>1, WFMin
<1>3. \A V \in T : V \subseteq U => V = U
  BY <1>2 DEF StrictSubsetOrdering
<1> QED
  BY <1>3

\* The function g adds up the amounts of the subsets of U.
AddsUp(g, U) ==
    /\ g \in [SUBSET U -> Nat]
    /\ g[{}] = 0
    /\ \A T \in SUBSET U : \A x \in U \ T : g[T \union {x}] = g[T] + Amount[x]

LEMMA SomethingAddsUp == \A U \in SUBSET Reward : \E g : AddsUp(g, U)
<1> DEFINE Bad == {U \in SUBSET Reward : ~ \E g : AddsUp(g, U)}
<1>1. SUFFICES ASSUME Bad # {} PROVE FALSE
  OBVIOUS
<1>2. PICK U \in Bad : \A V \in Bad : V \subseteq U => V = U
  <2>1. Bad \in SUBSET (SUBSET Reward)
    OBVIOUS
  <2> HIDE DEF Bad
  <2> QED
    BY <1>1, <2>1, SmallestSet
<1>3. CASE U = {}
  <2> DEFINE g == [T \in SUBSET U |-> 0]
  <2>1. AddsUp(g, U)
    BY <1>3 DEF AddsUp
  <2> QED
    BY <2>1
<1>4. CASE U # {}
  <2>1. PICK x \in U : TRUE
    BY <1>4
  <2>2. U \ {x} \in SUBSET Reward /\ U \ {x} \notin Bad
    BY <1>2, <2>1
  <2>3. PICK g : AddsUp(g, U \ {x})
    BY <2>2
  <2> DEFINE h == [T \in SUBSET U |-> IF x \in T THEN g[T \ {x}] + Amount[x]
                                                 ELSE g[T]]
  <2>4. \A y \in U : Amount[y] \in Nat
    BY RewardsAssumption
  <2>5. \A T \in SUBSET U : /\ x \in T => T \ {x} \in SUBSET (U \ {x})
                            /\ x \notin T => T \in SUBSET (U \ {x})
    OBVIOUS
  <2>6. h \in [SUBSET U -> Nat]
    BY <2>1, <2>3, <2>4, <2>5 DEF AddsUp
  <2>7. h[{}] = 0
    BY <2>3 DEF AddsUp
  <2>8. ASSUME NEW T \in SUBSET U, NEW y \in U \ T
        PROVE  h[T \union {y}] = h[T] + Amount[y]
    <3>1. CASE y = x
      <4>1. x \notin T /\ (T \union {y}) \ {x} = T /\ T \union {y} \in SUBSET U
        BY <2>8, <3>1
      <4> QED
        BY <3>1, <4>1
    <3>2. CASE y # x /\ x \in T
      <4>1. /\ (T \union {y}) \ {x} = (T \ {x}) \union {y}
            /\ T \ {x} \in SUBSET (U \ {x}) /\ y \in (U \ {x}) \ (T \ {x})
        BY <2>8, <3>2
      <4>2. g[(T \ {x}) \union {y}] = g[T \ {x}] + Amount[y]
        BY <2>3, <4>1 DEF AddsUp
      <4>3. g[T \ {x}] \in Nat /\ Amount[x] \in Nat /\ Amount[y] \in Nat
        BY <2>1, <2>3, <2>4, <4>1 DEF AddsUp
      <4>4. /\ h[T \union {y}] = g[(T \union {y}) \ {x}] + Amount[x]
            /\ h[T] = g[T \ {x}] + Amount[x]
        BY <3>2
      <4> HIDE DEF h
      <4>5. h[T \union {y}] = (g[T \ {x}] + Amount[y]) + Amount[x]
        BY Zenon, <4>1, <4>2, <4>4
      <4> QED
        BY <4>3, <4>4, <4>5
    <3>3. CASE y # x /\ x \notin T
      <4>1. T \in SUBSET (U \ {x}) /\ y \in (U \ {x}) \ T
        BY <2>8, <3>3
      <4>2. g[T \union {y}] = g[T] + Amount[y]
        BY <2>3, <4>1 DEF AddsUp
      <4> QED
        BY <3>3, <4>2
    <3> QED
      BY <3>1, <3>2, <3>3
  <2>9. AddsUp(h, U)
    <3> HIDE DEF h
    <3> QED
      BY <2>6, <2>7, <2>8 DEF AddsUp
  <2> QED
    BY <2>9
<1> QED
  BY <1>3, <1>4

\* The recursion by which the community modules define a sum over a set.
Picking(f, S) == [s \in SUBSET S |->
    IF s = {} THEN 0 ELSE LET x == CHOOSE x \in s : TRUE IN Amount[x] + f[s \ {x}]]

Sums(S) == CHOOSE f : f = Picking(f, S)

LEMMA TotalIsSums == ASSUME NEW S PROVE PoolTotal(S) = Sums(S)[S]
  BY DEF PoolTotal, MapThenSumSet, MapThenFoldSet, Sums, Picking

LEMMA AddingIsPicking ==
    ASSUME NEW g, AddsUp(g, Reward), NEW s \in SUBSET Reward, s # {}
    PROVE  LET x == CHOOSE x \in s : TRUE
           IN  x \in s /\ g[s] = Amount[x] + g[s \ {x}]
<1> DEFINE x == CHOOSE x \in s : TRUE
<1>1. x \in s
  OBVIOUS
<1> HIDE DEF x
<1>2. s \ {x} \in SUBSET Reward /\ x \in Reward \ (s \ {x}) /\ s = (s \ {x}) \union {x}
  BY <1>1
<1>3. g[s] = g[s \ {x}] + Amount[x]
  BY <1>2 DEF AddsUp
<1>4. g[s \ {x}] \in Nat /\ Amount[x] \in Nat
  BY <1>2, RewardsAssumption DEF AddsUp
<1>5. x \in s /\ g[s] = Amount[x] + g[s \ {x}]
  BY <1>1, <1>3, <1>4
<1> QED
  BY <1>5 DEF x

LEMMA TotalAddsUp ==
    ASSUME NEW g, AddsUp(g, Reward), NEW S \in SUBSET Reward
    PROVE  PoolTotal(S) = g[S]
<1> DEFINE h == [s \in SUBSET S |-> g[s]]
           f == Sums(S)
<1>1. h = Picking(h, S)
  <2>1. ASSUME NEW s \in SUBSET S
        PROVE  h[s] = IF s = {} THEN 0
                      ELSE LET x == CHOOSE x \in s : TRUE IN Amount[x] + h[s \ {x}]
    <3>1. CASE s = {}
      BY <3>1 DEF AddsUp
    <3>2. CASE s # {}
      <4> DEFINE x == CHOOSE x \in s : TRUE
      <4>1. x \in s /\ g[s] = Amount[x] + g[s \ {x}]
        BY <3>2, AddingIsPicking
      <4> HIDE DEF x
      <4>2. s \ {x} \in SUBSET S
        OBVIOUS
      <4>3. h[s] = Amount[x] + h[s \ {x}]
        BY <4>1, <4>2
      <4> QED
        BY <3>2, <4>3 DEF x
    <3> QED
      BY <3>1, <3>2
  <2> QED
    BY <2>1 DEF Picking
<1>2. f = Picking(f, S)
  <2> HIDE DEF h
  <2> QED
    BY <1>1 DEF Sums
<1> DEFINE Bad == {s \in SUBSET S : f[s] # g[s]}
<1> HIDE DEF f
<1>3. ASSUME Bad # {} PROVE FALSE
  <2>1. Bad \in SUBSET (SUBSET Reward)
    OBVIOUS
  <2>2. PICK U \in Bad : \A V \in Bad : V \subseteq U => V = U
    <3> HIDE DEF Bad
    <3> QED
      BY <1>3, <2>1, SmallestSet
  <2>3. U \in SUBSET S /\ f[U] # g[U]
    OBVIOUS
  <2>4. f[U] = IF U = {} THEN 0
               ELSE LET x == CHOOSE x \in U : TRUE IN Amount[x] + f[U \ {x}]
    BY <1>2, <2>3 DEF Picking
  <2>5. CASE U = {}
    BY <2>3, <2>4, <2>5 DEF AddsUp
  <2>6. CASE U # {}
    <3> DEFINE x == CHOOSE x \in U : TRUE
    <3>1. x \in U /\ g[U] = Amount[x] + g[U \ {x}]
      BY <2>3, <2>6, AddingIsPicking
    <3>2. f[U] = Amount[x] + f[U \ {x}]
      BY <2>4, <2>6
    <3> HIDE DEF x
    <3>3. U \ {x} \in SUBSET S /\ U \ {x} # U
      BY <2>3, <3>1
    <3>4. f[U \ {x}] = g[U \ {x}]
      BY <2>2, <3>3
    <3> QED
      BY <2>3, <3>1, <3>2, <3>4
  <2> QED
    BY <2>5, <2>6
<1>4. f[S] = g[S]
  BY <1>3
<1> QED
  BY <1>4, TotalIsSums DEF f

\* What the rest needs: the empty sum, and one more reward.
LEMMA TotalOfNone == PoolTotal({}) = 0
<1>1. PICK g : AddsUp(g, Reward)
  BY SomethingAddsUp
<1> QED
  BY <1>1, TotalAddsUp DEF AddsUp

LEMMA TotalOfOneMore ==
    ASSUME NEW S \in SUBSET Reward, NEW r \in Reward, r \notin S
    PROVE  PoolTotal(S \union {r}) = PoolTotal(S) + Amount[r]
<1>1. PICK g : AddsUp(g, Reward)
  BY SomethingAddsUp
<1>2. S \union {r} \in SUBSET Reward
  OBVIOUS
<1>3. PoolTotal(S \union {r}) = g[S \union {r}] /\ PoolTotal(S) = g[S]
  BY <1>1, <1>2, TotalAddsUp
<1> QED
  BY <1>1, <1>3 DEF AddsUp

(***************************************************************************)
(* The counters.                                                           *)
(***************************************************************************)

\* What the theorem lets the environment do: an answer of Stripe may be lost.
\* Each of the other five hazards alone breaks TotalsMatchPaid.
OnlyLostAnswers == Hazards \subseteq {"lost_answer"}

\* A request that is counting the rewards it has just paid.
Crediting(c) == pc[c] \in {"credit", "creditWrite"}

\* What a request is still to count has been paid.
CreditsPaid == \A c \in Call : Crediting(c) => \A r \in todo[c] : status[r] = "paid"

\* Between the read and the write of a counter nobody else writes it.
ReadIsFresh ==
    \A c \in Call : pc[c] = "creditWrite" =>
        row[c] \in todo[c] /\ seen[c][row[c]] = totalPaid[ProgramOf[row[c]]]

\* The paid rewards of a program that no request is still to count ...
Counted(p) == {r \in Reward : /\ status[r] = "paid"
                              /\ ProgramOf[r] = p
                              /\ \A c \in Call : Crediting(c) => r \notin todo[c]}

\* ... are what its counter stands at, at every moment.
TotalsCounted == \A p \in Program : totalPaid[p] = PoolTotal(Counted(p))

TotalsInv == /\ OneAtATime /\ SendsApproved
             /\ CreditsPaid /\ ReadIsFresh /\ TotalsCounted

\* A request that pays and counts nothing with this step.
Aside(c) ==
    /\ UNCHANGED <<status, totalPaid>>
    /\ \A d \in Call \ {c} : /\ pc'[d] = pc[d] /\ pool'[d] = pool[d]
                             /\ todo'[d] = todo[d] /\ row'[d] = row[d]
                             /\ seen'[d] = seen[d]
    /\ Crediting(c) => pc[c] = "credit" /\ todo[c] = {}
    /\ pc'[c] \notin {"credit", "creditWrite"}

LEMMA AsideKeepsTotals ==
    ASSUME CreditsPaid, ReadIsFresh, TotalsCounted, NEW c \in Call, Aside(c)
    PROVE  CreditsPaid' /\ ReadIsFresh' /\ TotalsCounted'
<1>1. ASSUME NEW d \in Call
      PROVE  /\ Crediting(d)' => d # c /\ Crediting(d) /\ todo'[d] = todo[d]
             /\ pc'[d] = "creditWrite" =>
                    /\ d # c /\ pc[d] = "creditWrite"
                    /\ row'[d] = row[d] /\ seen'[d] = seen[d]
  BY DEF Aside, Crediting
<1>2. CreditsPaid'
  BY <1>1 DEF CreditsPaid, Aside
<1>3. ReadIsFresh'
  BY <1>1 DEF ReadIsFresh, Aside, Crediting
<1>4. ASSUME NEW r, NEW d \in Call
      PROVE  (Crediting(d)' => r \notin todo'[d]) <=> (Crediting(d) => r \notin todo[d])
  BY DEF Aside, Crediting
<1>5. ASSUME NEW p \in Program PROVE Counted(p)' = Counted(p)
  BY <1>4 DEF Counted, Aside
<1>6. TotalsCounted'
  BY <1>5 DEF TotalsCounted, Aside
<1> QED
  BY <1>2, <1>3, <1>6

\* A reward is proposed, approved or declined: never one that is paid, nor
\* one that is on its way.
LEMMA DecisionKeepsTotals ==
    ASSUME OnlyLostAnswers, TypeOK, TotalsInv, NEW q \in Reward,
           ProposeReward(q) \/ ApproveReward(q) \/ DeclineReward(q)
    PROVE  TotalsInv'
<1> USE DEF TypeOK, RowsOK, RequestsOK
<1>1. /\ status[q] \in {"none", "pending"}
      /\ status'[q] \in {"pending", "approved", "declined"}
      /\ \A r \in Reward \ {q} : status'[r] = status[r]
      /\ UNCHANGED <<totalPaid, pc, row, pool, todo, seen>>
  BY DEF ProposeReward, ApproveReward, DeclineReward, ButtonShown, OnlyLostAnswers,
         callVars
<1>2. \A r \in Reward : /\ status'[r] = "paid" <=> status[r] = "paid"
                        /\ status[r] = "approved" => status'[r] = "approved"
  BY <1>1
<1>3. OneAtATime' /\ ReadIsFresh'
  BY <1>1 DEF TotalsInv, OneAtATime, ReadIsFresh
<1>4. SendsApproved'
  BY <1>1, <1>2 DEF TotalsInv, SendsApproved
<1>5. CreditsPaid'
  BY <1>1, <1>2 DEF TotalsInv, CreditsPaid, Crediting
<1>6. ASSUME NEW p \in Program PROVE Counted(p)' = Counted(p)
  BY <1>1, <1>2 DEF Counted, Crediting
<1>7. TotalsCounted'
  BY <1>1, <1>6 DEF TotalsInv, TotalsCounted
<1> QED
  BY <1>3, <1>4, <1>5, <1>7 DEF TotalsInv

LEMMA ClickKeepsTotals ==
    ASSUME OnlyLostAnswers, TypeOK, TotalsInv,
           NEW c \in Call, NEW S \in SUBSET Reward, Click(c, S)
    PROVE  TotalsInv'
<1> USE DEF TypeOK, RowsOK, RequestsOK
<1>1. /\ \A d \in Call : pc[d] = "idle"
      /\ pc' = [pc EXCEPT ![c] = "next"]
      /\ UNCHANGED <<status, totalPaid, row, pool, todo, seen>>
  BY DEF Click, Idle, OnlyLostAnswers, rowVars
<1>2. \A d \in Call : pc'[d] = "idle" \/ (d = c /\ pc'[d] = "next")
  BY <1>1
<1>3. Aside(c)
  BY <1>1 DEF Aside, Crediting
<1>4. OneAtATime' /\ SendsApproved'
  BY <1>2 DEF OneAtATime, SendsApproved, Sending
<1> QED
  BY <1>3, <1>4, AsideKeepsTotals DEF TotalsInv

LEMMA PoolKeepsTotals ==
    ASSUME OnlyLostAnswers, TypeOK, TotalsInv, NEW c \in Call, ReadPool(c)
    PROVE  TotalsInv'
<1> USE DEF TypeOK, RowsOK, RequestsOK
<1>1. PICK P \in Poolable(row[c]) :
        /\ pool' = [pool EXCEPT ![c] = P]
        /\ pc' = [pc EXCEPT ![c] =
                     IF PoolTotal(P) < Threshold THEN "hold" ELSE "mark"]
  BY DEF ReadPool
<1>2. \A r \in P : status[r] = "approved"
  BY DEF Poolable, EligibleRewards, DbError, OnlyLostAnswers
<1>3. /\ UNCHANGED <<status, totalPaid, todo, seen>> /\ pc[c] = "checked"
      /\ row' = [row EXCEPT ![c] = NoReward]
  BY DEF ReadPool, rowVars
<1>4. /\ \A d \in Call \ {c} : /\ pc'[d] = pc[d] /\ pool'[d] = pool[d]
                               /\ row'[d] = row[d]
      /\ pc'[c] \in {"hold", "mark"} /\ pool'[c] = P
  BY <1>1, <1>3
<1>5. Aside(c)
  BY <1>3, <1>4 DEF Aside, Crediting
<1>6. OneAtATime'
  BY <1>3, <1>4 DEF TotalsInv, OneAtATime
<1>7. SendsApproved'
  BY <1>2, <1>3, <1>4 DEF TotalsInv, SendsApproved
<1> QED
  BY <1>5, <1>6, <1>7, AsideKeepsTotals DEF TotalsInv

\* The rewards of the pool become paid and are to be counted.
LEMMA PaymentKeepsTotals ==
    ASSUME OnlyLostAnswers, TypeOK, ApproverRecorded, TotalsInv,
           NEW c \in Call, RecordPaid(c)
    PROVE  TotalsInv'
<1> USE DEF TypeOK, RowsOK, RequestsOK
<1>0. pc[c] = "sent" /\ \A r \in pool[c] : status[r] = "approved"
  BY DEF RecordPaid, TotalsInv, SendsApproved, Sending
<1>1. \A r \in pool[c] : EnforceHumanApproval("paid", approvedBy[r])
  BY <1>0 DEF ApproverRecorded, EnforceHumanApproval
<1>2. /\ status' = [r \in Reward |-> IF r \in pool[c] THEN "paid" ELSE status[r]]
      /\ pc' = [pc EXCEPT ![c] = "credit"]
      /\ todo' = [todo EXCEPT ![c] = pool[c]]
      /\ UNCHANGED <<totalPaid, row, pool, seen>>
  BY <1>1 DEF RecordPaid, DbError, OnlyLostAnswers
<1>3. \A d \in Call \ {c} : pc[d] = "idle" /\ pc'[d] = "idle"
  BY <1>0, <1>2 DEF TotalsInv, OneAtATime
<1>4. pc'[c] = "credit" /\ todo'[c] = pool[c]
  BY <1>2
<1>5. OneAtATime' /\ SendsApproved' /\ ReadIsFresh'
  BY <1>3, <1>4 DEF OneAtATime, SendsApproved, Sending, ReadIsFresh
<1>6. CreditsPaid'
  BY <1>2, <1>3, <1>4 DEF CreditsPaid, Crediting
<1>7. ASSUME NEW p \in Program PROVE Counted(p)' = Counted(p)
  <2>1. ASSUME NEW r \in Reward
        PROVE  /\ status[r] = "paid" => r \notin pool[c]
               /\ status'[r] = "paid" <=> status[r] = "paid" \/ r \in pool[c]
    BY <1>0, <1>2
  <2>2. ASSUME NEW r \in Reward
        PROVE  /\ \A d \in Call : Crediting(d) => r \notin todo[d]
               /\ (\A d \in Call : Crediting(d)' => r \notin todo'[d])
                      <=> r \notin pool[c]
    BY <1>0, <1>3, <1>4 DEF Crediting
  <2> QED
    BY <2>1, <2>2 DEF Counted
<1>8. TotalsCounted'
  BY <1>2, <1>7 DEF TotalsInv, TotalsCounted
<1> QED
  BY <1>5, <1>6, <1>8 DEF TotalsInv

LEMMA CreditReadKeepsTotals ==
    ASSUME OnlyLostAnswers, TypeOK, TotalsInv, NEW c \in Call, CreditRead(c)
    PROVE  TotalsInv'
<1> USE DEF TypeOK, RowsOK, RequestsOK
<1>1. PICK r \in todo[c] :
        /\ pc[c] = "credit"
        /\ row' = [row EXCEPT ![c] = r]
        /\ seen' = [seen EXCEPT ![c][r] = totalPaid[ProgramOf[r]]]
        /\ pc' = [pc EXCEPT ![c] = "creditWrite"]
        /\ UNCHANGED <<status, totalPaid, pool, todo>>
  BY DEF CreditRead, DbError, OnlyLostAnswers, rowVars
<1>2. \A d \in Call \ {c} : pc[d] = "idle" /\ pc'[d] = "idle"
  BY <1>1 DEF TotalsInv, OneAtATime
<1>3. pc'[c] = "creditWrite" /\ row'[c] = r /\ seen'[c][r] = totalPaid[ProgramOf[r]]
  BY <1>1
<1>4. OneAtATime' /\ SendsApproved'
  BY <1>2, <1>3 DEF OneAtATime, SendsApproved, Sending
<1>5. ReadIsFresh'
  BY <1>1, <1>2, <1>3 DEF ReadIsFresh
<1>6. \A d \in Call : Crediting(d)' <=> Crediting(d)
  BY <1>1, <1>2, <1>3 DEF Crediting
<1>7. CreditsPaid'
  BY <1>1, <1>6 DEF TotalsInv, CreditsPaid
<1>8. ASSUME NEW p \in Program PROVE Counted(p)' = Counted(p)
  BY <1>1, <1>6 DEF Counted
<1>9. TotalsCounted'
  BY <1>1, <1>8 DEF TotalsInv, TotalsCounted
<1> QED
  BY <1>4, <1>5, <1>7, <1>9 DEF TotalsInv

\* One more reward is counted.
LEMMA CreditWriteKeepsTotals ==
    ASSUME OnlyLostAnswers, TypeOK, TotalsInv, NEW c \in Call, CreditWrite(c)
    PROVE  TotalsInv'
<1> USE DEF TypeOK, RowsOK, RequestsOK
<1> DEFINE r == row[c]
           own == ProgramOf[r]
<1>1. /\ pc[c] = "creditWrite"
      /\ totalPaid' = [totalPaid EXCEPT ![own] = seen[c][r] + Amount[r]]
      /\ todo' = [todo EXCEPT ![c] = @ \ {r}]
      /\ pc' = [pc EXCEPT ![c] = "credit"]
      /\ UNCHANGED <<status, pool>>
  BY DEF CreditWrite, DbError, OnlyLostAnswers, rowVars
<1>2. /\ r \in todo[c] /\ r \in Reward /\ own \in Program
      /\ seen[c][r] = totalPaid[own] /\ status[r] = "paid"
  BY <1>1, RewardsAssumption DEF TotalsInv, ReadIsFresh, CreditsPaid, Crediting
<1> HIDE DEF r, own
<1>3. \A d \in Call \ {c} : pc[d] = "idle" /\ pc'[d] = "idle"
  BY <1>1 DEF TotalsInv, OneAtATime
<1>4. pc'[c] = "credit" /\ todo'[c] = todo[c] \ {r}
  BY <1>1
<1>5. OneAtATime' /\ SendsApproved' /\ ReadIsFresh'
  BY <1>3, <1>4 DEF OneAtATime, SendsApproved, Sending, ReadIsFresh
<1>6. CreditsPaid'
  BY <1>1, <1>3, <1>4 DEF TotalsInv, CreditsPaid, Crediting
<1>7. ASSUME NEW q \in Reward
      PROVE  /\ (\A d \in Call : Crediting(d) => q \notin todo[d]) <=> q \notin todo[c]
             /\ (\A d \in Call : Crediting(d)' => q \notin todo'[d])
                    <=> q = r \/ q \notin todo[c]
  BY <1>1, <1>3, <1>4 DEF Crediting
<1>8. ASSUME NEW p \in Program PROVE totalPaid'[p] = PoolTotal(Counted(p)')
  <2>1. CASE p = own
    <3>1. Counted(p)' = Counted(p) \union {r}
      BY <1>1, <1>2, <1>7, <2>1 DEF Counted, own
    <3>2. r \notin Counted(p)
      BY <1>2, <1>7 DEF Counted
    <3>3. Counted(p) \in SUBSET Reward
      BY DEF Counted
    <3>4. PoolTotal(Counted(p) \union {r}) = PoolTotal(Counted(p)) + Amount[r]
      BY <1>2, <3>2, <3>3, TotalOfOneMore
    <3>5. totalPaid'[p] = totalPaid[p] + Amount[r]
      BY <1>1, <1>2, <2>1
    <3>6. totalPaid[p] = PoolTotal(Counted(p))
      BY DEF TotalsInv, TotalsCounted
    <3> QED
      BY <3>1, <3>4, <3>5, <3>6
  <2>2. CASE p # own
    <3>1. Counted(p)' = Counted(p)
      BY <1>1, <1>2, <1>7, <2>2 DEF Counted, own
    <3>2. totalPaid'[p] = totalPaid[p]
      BY <1>1, <2>2
    <3> QED
      BY <3>1, <3>2 DEF TotalsInv, TotalsCounted
  <2> QED
    BY <2>1, <2>2
<1>9. TotalsCounted'
  BY <1>8 DEF TotalsCounted
<1> QED
  BY <1>5, <1>6, <1>9 DEF TotalsInv

\* Every other step of a request.
LEMMA RestKeepsTotals ==
    ASSUME OnlyLostAnswers, TypeOK, TotalsInv, NEW c \in Call,
           \/ ReadReward(c) \/ Hold(c) \/ MarkProcessing(c) \/ StripeTransfers(c)
           \/ StripeRefuses(c) \/ RecordFailed(c) \/ ReadCounts(c)
           \/ BumpRetryCount(c) \/ Settled(c) \/ Finish(c)
    PROVE  TotalsInv'
<1> USE DEF TypeOK, RowsOK, RequestsOK
<1>1. UNCHANGED <<status, totalPaid>>
  BY DEF ReadReward, Hold, MarkProcessing, StripeTransfers, StripeRefuses,
         RecordFailed, ReadCounts, BumpRetryCount, Settled, Finish, rowVars
<1>2. \A d \in Call \ {c} : /\ pc'[d] = pc[d] /\ pool'[d] = pool[d]
                            /\ todo'[d] = todo[d] /\ row'[d] = row[d]
                            /\ seen'[d] = seen[d]
  BY DEF ReadReward, Hold, MarkProcessing, StripeTransfers, StripeRefuses,
         RecordFailed, ReadCounts, BumpRetryCount, Settled, Finish
<1>3. /\ pc'[c] \in Sending => pc[c] \in Sending /\ pool'[c] = pool[c]
      /\ ~Idle(c)
      /\ Crediting(c) => pc[c] = "credit" /\ todo[c] = {}
      /\ pc'[c] \notin {"credit", "creditWrite"}
  BY DEF ReadReward, Hold, MarkProcessing, StripeTransfers, StripeRefuses,
         RecordFailed, ReadCounts, BumpRetryCount, Settled, Finish, Idle, Sending,
         Crediting
<1>4. Aside(c)
  BY <1>1, <1>2, <1>3 DEF Aside
<1>5. OneAtATime'
  BY <1>2, <1>3 DEF TotalsInv, OneAtATime, Idle
<1>6. SendsApproved'
  <2>1. ASSUME NEW d \in Call, pc'[d] \in Sending
        PROVE  pc[d] \in Sending /\ pool'[d] = pool[d]
    <3>1. CASE d = c
      BY <1>3, <2>1, <3>1
    <3>2. CASE d # c
      BY <1>2, <2>1, <3>2
    <3> QED
      BY <3>1, <3>2
  <2> QED
    BY <1>1, <2>1 DEF TotalsInv, SendsApproved
<1> QED
  BY <1>4, <1>5, <1>6, AsideKeepsTotals DEF TotalsInv

LEMMA TotalsStep ==
    ASSUME OnlyLostAnswers, TypeOK, ApproverRecorded, TotalsInv, [Next]_vars
    PROVE  TotalsInv'
<1>1. CASE UNCHANGED <<status, totalPaid, pc, row, pool, todo, seen>>
  BY <1>1 DEF TotalsInv, OneAtATime, SendsApproved, CreditsPaid, ReadIsFresh,
              TotalsCounted, Counted, Crediting
<1>2. ASSUME NEW r \in Reward, TriageDecision(r)
      PROVE  UNCHANGED <<status, totalPaid, pc, row, pool, todo, seen>>
  BY <1>2 DEF TriageDecision, rowVars, callVars
<1>3. ASSUME NEW p \in Payee, RefreshStripeStatus(p)
      PROVE  UNCHANGED <<status, totalPaid, pc, row, pool, todo, seen>>
  BY <1>3 DEF RefreshStripeStatus, rowVars, callVars
<1>4. CASE UNCHANGED vars
  BY <1>1, <1>4 DEF vars, rowVars, callVars
<1>5. ASSUME NEW r \in Reward, DirectUpdate(r) PROVE FALSE
  BY <1>5 DEF DirectUpdate, OnlyLostAnswers
<1>6. ASSUME NEW c \in Call, Crash(c) PROVE FALSE
  BY <1>6 DEF Crash, OnlyLostAnswers
<1> QED
  BY <1>1, <1>2, <1>3, <1>4, <1>5, <1>6, DecisionKeepsTotals, ClickKeepsTotals,
     PoolKeepsTotals, PaymentKeepsTotals, CreditReadKeepsTotals,
     CreditWriteKeepsTotals, RestKeepsTotals, ZenonT(40) DEF Next, RequestStep

\* The programs' counters: whatever answers are lost, however many rewards are
\* pooled, retried and paid, in however many programs, total_paid is the sum of
\* the paid rewards of the program whenever no request is running.
THEOREM TotalsKept == ASSUME OnlyLostAnswers PROVE Spec => []TotalsMatchPaid
<1>1. Init => TotalsInv
  <2>1. ASSUME Init, NEW p \in Program PROVE totalPaid[p] = PoolTotal(Counted(p))
    <3>1. Counted(p) = {}
      BY <2>1 DEF Init, Counted
    <3> QED
      BY <2>1, <3>1, TotalOfNone DEF Init
  <2> QED
    BY <2>1 DEF Init, TotalsInv, OneAtATime, SendsApproved, CreditsPaid, ReadIsFresh,
                TotalsCounted, Crediting, Sending
<1>2. TypeOK /\ ApproverRecorded /\ TotalsInv /\ [Next]_vars => TotalsInv'
  BY OnlyLostAnswers, TotalsStep
<1>3. TotalsInv => TotalsMatchPaid
  <2> SUFFICES ASSUME TotalsInv, \A c \in Call : Idle(c), NEW p \in Program
               PROVE  totalPaid[p] = PoolTotal({r \in Reward :
                                        status[r] = "paid" /\ ProgramOf[r] = p})
    BY DEF TotalsMatchPaid
  <2>1. Counted(p) = {r \in Reward : status[r] = "paid" /\ ProgramOf[r] = p}
    BY DEF Counted, Crediting, Idle
  <2> QED
    BY <2>1 DEF TotalsInv, TotalsCounted
<1> QED
  BY <1>1, <1>2, <1>3, TypeCorrect, HumanApproval, PTL DEF Spec
=============================================================================
