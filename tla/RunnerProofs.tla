----------------------------- MODULE RunnerProofs ------------------------------
(***************************************************************************)
(* The components of the runner beside the gateway and the payments, for   *)
(* every size of each: approvals are used once and block their duplicates, *)
(* what is spent and called stays within its limits, and what is retried   *)
(* is done once.                                                           *)
(*                                                                         *)
(* Each component has its inductive invariant.  That of the amounts is     *)
(* about sums over requests and days, so the lemmas about sums come first. *)
(***************************************************************************)
EXTENDS MCRunner, Integers, FiniteSetTheorems, TLAPS

-----------------------------------------------------------------------------
(* Induction, over a set of numbers, and the sums it is needed for.        *)

LEMMA SetInduction ==
  ASSUME NEW S, 0 \in S, \A n \in Nat : n \in S => n + 1 \in S
  PROVE  Nat \subseteq S
  <1>1. PICK R : R = OpToRel(<, Nat)
    OBVIOUS
  <1>2. IsWellFoundedOn(R, Nat)
    BY <1>1, NatLessThanWellFounded
  <1>3. \A x, y \in Nat : x < y => <<x, y>> \in R
    BY <1>1 DEF OpToRel
  <1> SUFFICES ASSUME Nat \ S # {} PROVE FALSE
    OBVIOUS
  <1>4. PICK n \in Nat \ S : \A m \in Nat \ S : <<m, n>> \notin R
    BY <1>2, WFMin
  <1>5. n # 0 /\ n - 1 \in Nat /\ n - 1 < n
    BY <1>4
  <1>6. n - 1 \in S
    BY <1>3, <1>4, <1>5
  <1> QED
    BY <1>4, <1>5, <1>6

\* The partial sums of the first n values of a function.
Sums(f, n, s) ==
    /\ s \in [0 .. n -> Nat]
    /\ s[0] = 0 /\ \A i \in 1 .. n : s[i] = s[i - 1] + f[i]

LEMMA SumsExist ==
  ASSUME NEW f, NEW n \in Nat, \A i \in 1 .. n : f[i] \in Nat
  PROVE  \E s : Sums(f, n, s)
  <1> DEFINE S == {k \in Nat : k <= n => \E s : Sums(f, k, s)}
  <1>1. 0 \in S
    <2>1. Sums(f, 0, [i \in 0 .. 0 |-> 0])
      BY DEF Sums
    <2> QED
      BY <2>1
  <1>2. ASSUME NEW k \in Nat, k \in S PROVE k + 1 \in S
    <2> SUFFICES ASSUME k + 1 <= n PROVE \E s : Sums(f, k + 1, s)
      OBVIOUS
    <2>1. PICK s : Sums(f, k, s)
      BY <1>2
    <2>2. PICK t : t = [i \in 0 .. k + 1 |-> IF i = k + 1 THEN s[k] + f[k + 1] ELSE s[i]]
      OBVIOUS
    <2>3. f[k + 1] \in Nat /\ s[k] \in Nat
      BY <2>1 DEF Sums
    <2>4. t \in [0 .. k + 1 -> Nat]
      BY <2>1, <2>2, <2>3 DEF Sums
    <2>5. ASSUME NEW i \in 1 .. k + 1 PROVE t[i] = t[i - 1] + f[i]
      <3>1. CASE i = k + 1
        BY <2>2, <3>1
      <3>2. CASE i # k + 1
        <4>1. i \in 1 .. k /\ i \in 0 .. k + 1 /\ i - 1 \in 0 .. k + 1 /\ i - 1 # k + 1
          BY <3>2
        <4>2. s[i] = s[i - 1] + f[i]
          BY <2>1, <4>1 DEF Sums
        <4> QED
          BY <2>2, <3>2, <4>1, <4>2
      <3> QED
        BY <3>1, <3>2
    <2>6. t[0] = 0
      BY <2>1, <2>2 DEF Sums
    <2>7. Sums(f, k + 1, t)
      BY <2>4, <2>5, <2>6 DEF Sums
    <2> QED
      BY <2>7
  <1>3. Nat \subseteq S
    <2> HIDE DEF S
    <2> QED
      BY <1>1, <1>2, SetInduction
  <1> QED
    BY <1>3

LEMMA SumToIsSums ==
  ASSUME NEW f, NEW n \in Nat, \A i \in 1 .. n : f[i] \in Nat
  PROVE  \E s : Sums(f, n, s) /\ SumTo(f, n) = s[n]
  <1> DEFINE Sum(s) == s = [i \in 0 .. n |-> IF i = 0 THEN 0 ELSE s[i - 1] + f[i]]
  <1>1. PICK s : Sums(f, n, s)
    BY SumsExist
  <1>2. Sum(s)
    BY <1>1 DEF Sums
  <1>3. PICK c : c = CHOOSE t : Sum(t)
    OBVIOUS
  <1>4. Sum(c)
    BY <1>2, <1>3
  <1>5. SumTo(f, n) = c[n]
    BY <1>3 DEF SumTo
  <1>6. c = s
    <2> DEFINE S == {k \in Nat : k <= n => c[k] = s[k]}
    <2>1. 0 \in S
      BY <1>2, <1>4
    <2>2. ASSUME NEW k \in Nat, k \in S PROVE k + 1 \in S
      <3> SUFFICES ASSUME k + 1 <= n PROVE c[k + 1] = s[k + 1]
        OBVIOUS
      <3>1. k + 1 \in 0 .. n /\ k + 1 # 0 /\ c[k] = s[k] /\ (k + 1) - 1 = k
        BY <2>2
      <3>2. c[k + 1] = c[k] + f[k + 1]
        BY <1>4, <3>1
      <3>3. s[k + 1] = s[k] + f[k + 1]
        BY <1>2, <3>1
      <3> QED
        BY <3>1, <3>2, <3>3
    <2>3. Nat \subseteq S
      <3> HIDE DEF S
      <3> QED
        BY <2>1, <2>2, SetInduction
    <2>4. \A k \in 0 .. n : c[k] = s[k]
      BY <2>3
    <2> QED
      BY <1>2, <1>4, <2>4
  <1> QED
    BY <1>1, <1>5, <1>6

LEMMA SumType ==
  ASSUME NEW f, NEW n \in Nat, \A i \in 1 .. n : f[i] \in Nat
  PROVE  SumTo(f, n) \in Nat
  BY SumToIsSums DEF Sums

\* Where one value changes, the sum changes by as much.
LEMMA SumChanges ==
  ASSUME NEW f, NEW fn, NEW n \in Nat, NEW d \in 1 .. n,
         \A i \in 1 .. n : f[i] \in Nat /\ fn[i] \in Nat,
         \A i \in 1 .. n : i # d => fn[i] = f[i]
  PROVE  SumTo(fn, n) = SumTo(f, n) + (fn[d] - f[d])
  <1>1. PICK s : Sums(f, n, s) /\ SumTo(f, n) = s[n]
    BY SumToIsSums
  <1>2. PICK t : Sums(fn, n, t) /\ SumTo(fn, n) = t[n]
    BY SumToIsSums
  <1> DEFINE S == {k \in Nat : k <= n => t[k] = IF d <= k THEN s[k] + (fn[d] - f[d]) ELSE s[k]}
  <1>3. 0 \in S
    BY <1>1, <1>2 DEF Sums
  <1>4. ASSUME NEW k \in Nat, k \in S PROVE k + 1 \in S
    <2> SUFFICES ASSUME k + 1 <= n
                 PROVE t[k + 1] = IF d <= k + 1 THEN s[k + 1] + (fn[d] - f[d]) ELSE s[k + 1]
      OBVIOUS
    <2>1. k + 1 \in 1 .. n /\ (k + 1) - 1 = k /\ k \in 0 .. n /\ k + 1 \in 0 .. n
      OBVIOUS
    <2>2. /\ s[k + 1] = s[k] + f[k + 1] /\ t[k + 1] = t[k] + fn[k + 1]
          /\ s[k] \in Nat /\ t[k] \in Nat
      BY <1>1, <1>2, <2>1 DEF Sums
    <2>3. t[k] = IF d <= k THEN s[k] + (fn[d] - f[d]) ELSE s[k]
      BY <1>4
    <2>4. f[k + 1] \in Nat /\ fn[k + 1] \in Nat /\ f[d] \in Nat /\ fn[d] \in Nat
      BY <2>1
    <2>5. k + 1 # d => fn[k + 1] = f[k + 1]
      BY <2>1
    <2> QED
      BY <2>2, <2>3, <2>4, <2>5
  <1>5. Nat \subseteq S
    <2> HIDE DEF S
    <2> QED
      BY <1>3, <1>4, SetInduction
  <1>6. n \in S
    <2> HIDE DEF S
    <2> QED
      BY <1>5
  <1> QED
    BY <1>1, <1>2, <1>6

LEMMA SumIsMonotone ==
  ASSUME NEW f, NEW fn, NEW n \in Nat,
         \A i \in 1 .. n : f[i] \in Nat /\ fn[i] \in Nat /\ f[i] <= fn[i]
  PROVE  SumTo(f, n) <= SumTo(fn, n)
  <1>1. PICK s : Sums(f, n, s) /\ SumTo(f, n) = s[n]
    BY SumToIsSums
  <1>2. PICK t : Sums(fn, n, t) /\ SumTo(fn, n) = t[n]
    BY SumToIsSums
  <1> DEFINE S == {k \in Nat : k <= n => s[k] <= t[k]}
  <1>3. 0 \in S
    BY <1>1, <1>2 DEF Sums
  <1>4. ASSUME NEW k \in Nat, k \in S PROVE k + 1 \in S
    <2> SUFFICES ASSUME k + 1 <= n PROVE s[k + 1] <= t[k + 1]
      OBVIOUS
    <2>1. k + 1 \in 1 .. n /\ (k + 1) - 1 = k /\ k \in 0 .. n
      OBVIOUS
    <2>2. /\ s[k + 1] = s[k] + f[k + 1] /\ t[k + 1] = t[k] + fn[k + 1]
          /\ s[k] \in Nat /\ t[k] \in Nat
      BY <1>1, <1>2, <2>1 DEF Sums
    <2>3. s[k] <= t[k]
      BY <1>4
    <2> QED
      BY <2>1, <2>2, <2>3
  <1>5. Nat \subseteq S
    <2> HIDE DEF S
    <2> QED
      BY <1>3, <1>4, SetInduction
  <1>6. n \in S
    <2> HIDE DEF S
    <2> QED
      BY <1>5
  <1> QED
    BY <1>1, <1>2, <1>6

LEMMA SumOfZeros ==
  ASSUME NEW f, NEW n \in Nat, \A i \in 1 .. n : f[i] = 0
  PROVE  SumTo(f, n) = 0
  <1>1. PICK s : Sums(f, n, s) /\ SumTo(f, n) = s[n]
    BY SumToIsSums
  <1> DEFINE S == {k \in Nat : k <= n => s[k] = 0}
  <1>2. 0 \in S
    BY <1>1 DEF Sums
  <1>3. ASSUME NEW k \in Nat, k \in S PROVE k + 1 \in S
    <2> SUFFICES ASSUME k + 1 <= n PROVE s[k + 1] = 0
      OBVIOUS
    <2>1. k + 1 \in 1 .. n /\ (k + 1) - 1 = k
      OBVIOUS
    <2>2. s[k] = 0 /\ f[k + 1] = 0
      BY <1>3, <2>1
    <2>3. s[k + 1] = s[k] + f[k + 1]
      BY <1>1, <2>1 DEF Sums
    <2> QED
      BY <2>2, <2>3
  <1>4. Nat \subseteq S
    <2> HIDE DEF S
    <2> QED
      BY <1>2, <1>3, SetInduction
  <1>5. n \in S
    <2> HIDE DEF S
    <2> QED
      BY <1>4
  <1> QED
    BY <1>1, <1>5

-----------------------------------------------------------------------------
(* Sums over the requests of an instance, counted in some order.           *)

Counting(S, order) ==
    /\ order \in [1 .. Cardinality(S) -> S]
    /\ \A x \in S : \E i \in 1 .. Cardinality(S) : order[i] = x
    /\ \A i, j \in 1 .. Cardinality(S) : order[i] = order[j] => i = j

Order(S) == CHOOSE order : Counting(S, order)

SumOver(S, f) == SumTo([i \in 1 .. Cardinality(S) |-> f[Order(S)[i]]], Cardinality(S))

LEMMA OrderCounts ==
  ASSUME NEW S, IsFiniteSet(S)
  PROVE  Cardinality(S) \in Nat /\ Counting(S, Order(S))
  <1>1. Cardinality(S) \in Nat /\ ExistsBijection(1 .. Cardinality(S), S)
    BY FS_CardinalityType
  <1>2. PICK b \in Bijection(1 .. Cardinality(S), S) : TRUE
    BY <1>1 DEF ExistsBijection
  <1>3. Counting(S, b)
    BY <1>2 DEF Counting, Bijection, Injection, Surjection, IsInjective
  <1> QED
    BY <1>1, <1>3 DEF Order

LEMMA SumOverType ==
  ASSUME NEW S, IsFiniteSet(S), NEW f \in [S -> Nat]
  PROVE  SumOver(S, f) \in Nat
  <1>1. PICK fn : fn = [i \in 1 .. Cardinality(S) |-> f[Order(S)[i]]]
    OBVIOUS
  <1>2. \A i \in 1 .. Cardinality(S) : fn[i] \in Nat
    BY <1>1, OrderCounts DEF Counting
  <1>3. SumTo(fn, Cardinality(S)) \in Nat
    BY <1>2, OrderCounts, SumType
  <1> QED
    BY <1>1, <1>3 DEF SumOver

LEMMA SumOverZeros ==
  ASSUME NEW S, IsFiniteSet(S), NEW f, \A x \in S : f[x] = 0
  PROVE  SumOver(S, f) = 0
  <1>1. PICK fn : fn = [i \in 1 .. Cardinality(S) |-> f[Order(S)[i]]]
    OBVIOUS
  <1>2. \A i \in 1 .. Cardinality(S) : fn[i] = 0
    BY <1>1, OrderCounts DEF Counting
  <1>3. SumTo(fn, Cardinality(S)) = 0
    BY <1>2, OrderCounts, SumOfZeros
  <1> QED
    BY <1>1, <1>3 DEF SumOver

LEMMA SumOverChanges ==
  ASSUME NEW S, IsFiniteSet(S), NEW f \in [S -> Nat], NEW fn \in [S -> Nat], NEW x \in S,
         \A y \in S : y # x => fn[y] = f[y]
  PROVE  SumOver(S, fn) = SumOver(S, f) + (fn[x] - f[x])
  <1>1. PICK n : n = Cardinality(S)
    OBVIOUS
  <1>2. PICK o : o = Order(S)
    OBVIOUS
  <1>3. n \in Nat /\ Counting(S, o)
    BY <1>1, <1>2, OrderCounts
  <1>4. PICK ff : ff = [i \in 1 .. n |-> f[o[i]]]
    OBVIOUS
  <1>5. PICK gg : gg = [i \in 1 .. n |-> fn[o[i]]]
    OBVIOUS
  <1>6. PICK d \in 1 .. n : o[d] = x
    BY <1>1, <1>3 DEF Counting
  <1>7. \A i \in 1 .. n : ff[i] \in Nat /\ gg[i] \in Nat
    BY <1>1, <1>3, <1>4, <1>5 DEF Counting
  <1>8. \A i \in 1 .. n : i # d => gg[i] = ff[i]
    BY <1>1, <1>3, <1>4, <1>5, <1>6 DEF Counting
  <1>9. SumTo(gg, n) = SumTo(ff, n) + (gg[d] - ff[d])
    BY <1>3, <1>7, <1>8, SumChanges
  <1>10. gg[d] = fn[x] /\ ff[d] = f[x]
    BY <1>4, <1>5, <1>6
  <1>11. SumOver(S, f) = SumTo(ff, n) /\ SumOver(S, fn) = SumTo(gg, n)
    BY <1>1, <1>2, <1>4, <1>5 DEF SumOver
  <1> QED
    BY <1>9, <1>10, <1>11

LEMMA SumOverIsMonotone ==
  ASSUME NEW S, IsFiniteSet(S), NEW f \in [S -> Nat], NEW fn \in [S -> Nat],
         \A x \in S : f[x] <= fn[x]
  PROVE  SumOver(S, f) <= SumOver(S, fn)
  <1>1. PICK n : n = Cardinality(S)
    OBVIOUS
  <1>2. PICK o : o = Order(S)
    OBVIOUS
  <1>3. n \in Nat /\ Counting(S, o)
    BY <1>1, <1>2, OrderCounts
  <1>4. PICK ff : ff = [i \in 1 .. n |-> f[o[i]]]
    OBVIOUS
  <1>5. PICK gg : gg = [i \in 1 .. n |-> fn[o[i]]]
    OBVIOUS
  <1>6. \A i \in 1 .. n : o[i] \in S
    BY <1>1, <1>3 DEF Counting
  <1>7. \A i \in 1 .. n : ff[i] \in Nat /\ gg[i] \in Nat /\ ff[i] <= gg[i]
    BY <1>4, <1>5, <1>6
  <1>8. SumTo(ff, n) <= SumTo(gg, n)
    BY <1>3, <1>7, SumIsMonotone
  <1> QED
    BY <1>1, <1>2, <1>4, <1>5, <1>8 DEF SumOver
-----------------------------------------------------------------------------
(* What the wallet has approved, and may still come to approve by a        *)
(* transaction that is at large, was reserved in the ledger on its day.    *)

Approving(r) == IF r.tool = "approveUsdc" THEN r.amount ELSE 0

\* What a request may still approve of the transactions sent on day d.
Due(r, d) ==
    (IF write[r].state = "executing" /\ d = day THEN Approving(r) ELSE 0)
      + (IF d \in write[r].loose THEN Approving(r) ELSE 0)

Outstanding(d) == SumOver(Asked, [r \in Asked |-> Due(r, d)])

GrantsAreReserved == \A d \in Days : granted[d] + Outstanding(d) <= spendLedger[d]

AllowanceIsGranted == allowance + escrowed <= Total(granted)

SpendInv ==
    /\ SpendTypeOK
    /\ GrantsAreReserved
    /\ AllowanceIsGranted
    /\ Total(spendLedger) <= MonthlyUsdc

LEMMA AskedTypes ==
  ASSUME NEW r \in Asked
  PROVE  /\ r.tool \in Tools /\ r.amount \in Nat /\ Approving(r) \in Nat
         /\ Approving(r) <= r.amount
         /\ r.tool \notin {"createJob", "approveUsdc"} => r.job \in SpendJobs
  BY SpendAssumption DEF Requests, Tools, Approving

LEMMA TotalType == ASSUME NEW f \in [Days -> Nat] PROVE Total(f) \in Nat
  BY SpendAssumption, SumType DEF Days, Total

LEMMA TotalChanges ==
  ASSUME NEW f \in [Days -> Nat], NEW d \in Days, NEW a \in Nat
  PROVE  Total([f EXCEPT ![d] = @ + a]) = Total(f) + a
  <1>1. PICK fn : fn = [f EXCEPT ![d] = @ + a]
    OBVIOUS
  <1>2. /\ \A i \in 1 .. LastDay : f[i] \in Nat /\ fn[i] \in Nat
        /\ \A i \in 1 .. LastDay : i # d => fn[i] = f[i]
        /\ fn[d] = f[d] + a /\ f[d] \in Nat
    BY <1>1 DEF Days
  <1>3. LastDay \in Nat /\ d \in 1 .. LastDay
    BY SpendAssumption DEF Days
  <1>4. SumTo(fn, LastDay) = SumTo(f, LastDay) + (fn[d] - f[d])
    BY <1>2, <1>3, SumChanges
  <1>5. SumTo(f, LastDay) \in Nat
    BY <1>2, <1>3, SumType
  <1> QED
    BY <1>1, <1>2, <1>4, <1>5 DEF Total

LEMMA DueType ==
  ASSUME SpendTypeOK, NEW r \in Asked, NEW d \in Days
  PROVE  Due(r, d) \in Nat
  BY AskedTypes DEF SpendTypeOK, Due

LEMMA OutstandingType ==
  ASSUME SpendTypeOK, NEW d \in Days
  PROVE  Outstanding(d) \in Nat
  <1>1. PICK f : f = [r \in Asked |-> Due(r, d)]
    OBVIOUS
  <1>2. f \in [Asked -> Nat]
    BY <1>1, DueType
  <1> QED
    BY <1>1, <1>2, SumOverType, SpendAssumption DEF Outstanding

\* One request is at work in a step.
LEMMA OutstandingChanges ==
  ASSUME SpendTypeOK, SpendTypeOK', NEW r \in Asked, NEW d \in Days,
         \A q \in Asked : q # r => Due(q, d)' = Due(q, d)
  PROVE  Outstanding(d)' = Outstanding(d) + (Due(r, d)' - Due(r, d))
  <1>1. PICK f : f = [q \in Asked |-> Due(q, d)]
    OBVIOUS
  <1>2. PICK fn : fn = [q \in Asked |-> Due(q, d)']
    OBVIOUS
  <1>3. \A q \in Asked : Due(q, d) \in Nat /\ Due(q, d)' \in Nat
    BY AskedTypes DEF SpendTypeOK, Due
  <1>4. f \in [Asked -> Nat] /\ fn \in [Asked -> Nat] /\ \A q \in Asked : q # r => fn[q] = f[q]
    BY <1>1, <1>2, <1>3
  <1>5. SumOver(Asked, fn) = SumOver(Asked, f) + (fn[r] - f[r])
    BY <1>4, SumOverChanges, SpendAssumption
  <1>6. Outstanding(d) = SumOver(Asked, f)
    BY <1>1 DEF Outstanding
  <1>7. Outstanding(d)' = SumOver(Asked, fn)
    BY <1>2 DEF Outstanding
  <1> QED
    BY <1>1, <1>2, <1>5, <1>6, <1>7

LEMMA OutstandingFalls ==
  ASSUME SpendTypeOK, SpendTypeOK', NEW d \in Days,
         \A q \in Asked : Due(q, d)' <= Due(q, d)
  PROVE  Outstanding(d)' <= Outstanding(d)
  <1>1. PICK f : f = [q \in Asked |-> Due(q, d)]
    OBVIOUS
  <1>2. PICK fn : fn = [q \in Asked |-> Due(q, d)']
    OBVIOUS
  <1>3. \A q \in Asked : Due(q, d) \in Nat /\ Due(q, d)' \in Nat
    BY AskedTypes DEF SpendTypeOK, Due
  <1>4. f \in [Asked -> Nat] /\ fn \in [Asked -> Nat] /\ \A q \in Asked : fn[q] <= f[q]
    BY <1>1, <1>2, <1>3
  <1>5. SumOver(Asked, fn) <= SumOver(Asked, f)
    BY <1>4, SumOverIsMonotone, SpendAssumption
  <1>6. Outstanding(d) = SumOver(Asked, f)
    BY <1>1 DEF Outstanding
  <1>7. Outstanding(d)' = SumOver(Asked, fn)
    BY <1>2 DEF Outstanding
  <1> QED
    BY <1>5, <1>6, <1>7

LEMMA InitSpendInv == SpendInit => SpendInv
  <1> SUFFICES ASSUME SpendInit PROVE SpendInv
    OBVIOUS
  <1>1. SpendTypeOK
    BY SpendAssumption DEF SpendInit, SpendTypeOK, Days, JobStatuses
  <1>2. ASSUME NEW d \in Days PROVE Outstanding(d) = 0
    <2>1. PICK f : f = [r \in Asked |-> Due(r, d)]
      OBVIOUS
    <2>2. \A r \in Asked : f[r] = 0
      BY <2>1 DEF SpendInit, Due
    <2> QED
      BY <2>1, <2>2, SumOverZeros, SpendAssumption DEF Outstanding
  <1>3. Total(granted) = 0 /\ Total(spendLedger) = 0
    BY SumOfZeros, SpendAssumption DEF SpendInit, Total, Days
  <1> QED
    BY <1>1, <1>2, <1>3, SpendAssumption
    DEF SpendInv, SpendInit, GrantsAreReserved, AllowanceIsGranted

ChainTypes ==
    /\ escrowJob \in [SpendJobs -> [status : JobStatuses, budget : Nat]]
    /\ allowance \in Nat /\ granted \in [Days -> Nat] /\ escrowed \in Nat

LEMMA JobsAfterTypes ==
  ASSUME ChainTypes, NEW r \in Asked, Accepted(r), escrowJob' \in JobsAfter(r)
  PROVE  escrowJob' \in [SpendJobs -> [status : JobStatuses, budget : Nat]]
  <1>1. CASE r.tool = "createJob"
    BY <1>1 DEF JobsAfter, ChainTypes, JobStatuses
  <1>2. CASE r.tool = "setBudget"
    <2>1. BudgetUnits(r.amount) \in Nat
      BY AskedTypes, SpendAssumption DEF BudgetUnits
    <2> QED
      BY <1>2, <2>1 DEF JobsAfter, ChainTypes
  <1>3. CASE r.tool = "approveUsdc"
    BY <1>3 DEF JobsAfter, ChainTypes
  <1>4. CASE r.tool \notin {"createJob", "setBudget", "approveUsdc"}
    <2>1. /\ r.tool \in {"fundJob", "submitDeliverable", "completeJob", "rejectJob", "setProvider",
                         "claimRefund"}
          /\ r.job \in SpendJobs
      BY <1>4, AskedTypes DEF Tools
    <2>2. StatusOnceDone[r.tool] \in JobStatuses
      BY <2>1 DEF StatusOnceDone, JobStatuses
    <2>3. escrowJob' = [escrowJob EXCEPT ![r.job].status = StatusOnceDone[r.tool]]
      BY <1>4 DEF JobsAfter
    <2> QED
      BY <2>1, <2>2, <2>3 DEF ChainTypes
  <1> QED
    BY <1>1, <1>2, <1>3, <1>4

LEMMA MinesGrants ==
  ASSUME ChainTypes, AllowanceIsGranted, NEW r \in Asked, NEW d \in Days, Mines(r, d)
  PROVE  /\ ChainTypes' /\ AllowanceIsGranted'
         /\ granted' = [granted EXCEPT ![d] = @ + Approving(r)]
  <1>1. escrowJob' \in [SpendJobs -> [status : JobStatuses, budget : Nat]]
    BY JobsAfterTypes DEF Mines
  <1>2. r.amount \in Nat
    BY AskedTypes
  <1>3. Total(granted) \in Nat
    BY TotalType DEF ChainTypes
  <1>4. CASE r.tool = "approveUsdc"
    <2>1. allowance' = r.amount /\ escrowed' = escrowed
          /\ granted' = [granted EXCEPT ![d] = @ + r.amount]
      BY <1>4 DEF Mines, AllowanceUnits
    <2>2. Total(granted') = Total(granted) + r.amount
      BY <2>1, <1>2, TotalChanges DEF ChainTypes
    <2>3. granted' \in [Days -> Nat]
      BY <2>1, <1>2 DEF ChainTypes
    <2> QED
      BY <1>1, <1>2, <1>3, <1>4, <2>1, <2>2, <2>3 DEF ChainTypes, AllowanceIsGranted, Approving
  <1>5. CASE r.tool = "fundJob"
    <2>1. r.job \in SpendJobs
      BY <1>5, AskedTypes
    <2>2. escrowJob[r.job].budget \in 1 .. allowance
      BY <1>5 DEF Mines, Accepted
    <2>3. /\ allowance' = allowance - escrowJob[r.job].budget
          /\ escrowed' = escrowed + escrowJob[r.job].budget
          /\ granted' = granted
      BY <1>5 DEF Mines
    <2>4. granted' = [granted EXCEPT ![d] = @ + 0]
      BY <2>3 DEF ChainTypes
    <2>5. escrowJob[r.job].budget \in Nat /\ escrowJob[r.job].budget <= allowance
      BY <2>1, <2>2 DEF ChainTypes
    <2>6. Approving(r) = 0
      BY <1>5 DEF Approving
    <2>7. PICK b : b = escrowJob[r.job].budget
      OBVIOUS
    <2>8. allowance + escrowed <= Total(granted) /\ allowance \in Nat /\ escrowed \in Nat
      BY DEF AllowanceIsGranted, ChainTypes
    <2>9. allowance' \in Nat /\ escrowed' \in Nat /\ allowance' + escrowed' = allowance + escrowed
      BY <2>3, <2>5, <2>7, <2>8
    <2>10. AllowanceIsGranted'
      BY <2>3, <2>8, <2>9 DEF AllowanceIsGranted
    <2>11. ChainTypes'
      BY <1>1, <2>3, <2>9 DEF ChainTypes
    <2> QED
      BY <2>4, <2>6, <2>10, <2>11
  <1>6. CASE r.tool \notin {"approveUsdc", "fundJob"}
    <2>1. allowance' = allowance /\ escrowed' = escrowed /\ granted' = granted
      BY <1>6 DEF Mines
    <2>2. granted' = [granted EXCEPT ![d] = @ + 0]
      BY <2>1 DEF ChainTypes
    <2> QED
      BY <1>1, <1>6, <2>1, <2>2 DEF ChainTypes, AllowanceIsGranted, Approving
  <1> QED
    BY <1>4, <1>5, <1>6

LEMMA RestsKeeps ==
  ASSUME ChainTypes, AllowanceIsGranted, ChainRests
  PROVE  ChainTypes' /\ AllowanceIsGranted' /\ granted' = granted
  BY DEF ChainRests, ChainTypes, AllowanceIsGranted

SpendStates == {"none", "executing", "refused", "confirmed", "failed", "unknown"}

\* A request has come to another state, the day's ledger has grown by an
\* amount, and the chain may have mined a transaction of the request.
LEMMA WritesKeepReserved ==
  ASSUME SpendInv, SpendTypeOK', NEW r \in Asked, NEW mined \in Days, NEW grown \in Nat,
         day' = day, \A q \in Asked : q # r => write'[q] = write[q],
         spendLedger' = [spendLedger EXCEPT ![day] = @ + grown],
         NEW got \in Nat, granted' = [granted EXCEPT ![mined] = @ + got],
         \A d \in Days :
             (IF d = mined THEN got ELSE 0) + Due(r, d)' <= Due(r, d) + (IF d = day THEN grown ELSE 0)
  PROVE  GrantsAreReserved'
  <1> SUFFICES ASSUME NEW d \in Days PROVE (granted[d] + Outstanding(d))' <= spendLedger'[d]
    BY DEF GrantsAreReserved
  <1>1. \A q \in Asked : q # r => Due(q, d)' = Due(q, d)
    BY DEF Due
  <1>2. Outstanding(d)' = Outstanding(d) + (Due(r, d)' - Due(r, d))
    BY <1>1, OutstandingChanges DEF SpendInv
  <1>3. /\ Due(r, d) \in Nat /\ Due(r, d)' \in Nat /\ Outstanding(d) \in Nat
        /\ granted[d] \in Nat /\ spendLedger[d] \in Nat
    <2>1. Due(r, d)' \in Nat
      BY AskedTypes DEF SpendTypeOK, Due
    <2> QED
      BY <2>1, DueType, OutstandingType DEF SpendInv, SpendTypeOK
  <1>4. granted'[d] = granted[d] + (IF d = mined THEN got ELSE 0)
    BY <1>3 DEF SpendInv, SpendTypeOK
  <1>5. spendLedger'[d] = spendLedger[d] + (IF d = day THEN grown ELSE 0)
    BY <1>3 DEF SpendInv, SpendTypeOK
  <1>6. granted[d] + Outstanding(d) <= spendLedger[d]
    BY DEF SpendInv, GrantsAreReserved
  <1>7. (IF d = mined THEN got ELSE 0) + Due(r, d)' <= Due(r, d) + (IF d = day THEN grown ELSE 0)
    OBVIOUS
  <1>8. (IF d = mined THEN got ELSE 0) \in Nat /\ (IF d = day THEN grown ELSE 0) \in Nat
    OBVIOUS
  <1> QED
    BY <1>2, <1>3, <1>4, <1>5, <1>6, <1>7, <1>8

LEMMA ReservedWhenFalling ==
  ASSUME SpendInv, SpendTypeOK', spendLedger' = spendLedger, granted' = granted,
         \A d \in Days : \A q \in Asked : Due(q, d)' <= Due(q, d)
  PROVE  GrantsAreReserved'
  <1> SUFFICES ASSUME NEW d \in Days PROVE granted[d] + Outstanding(d)' <= spendLedger[d]
    BY DEF GrantsAreReserved
  <1>1. Outstanding(d)' <= Outstanding(d)
    BY OutstandingFalls DEF SpendInv
  <1>2. Outstanding(d) \in Nat /\ granted[d] \in Nat /\ spendLedger[d] \in Nat
    BY OutstandingType DEF SpendInv, SpendTypeOK
  <1>3. Outstanding(d)' \in Nat
    <2>1. PICK fn : fn = [q \in Asked |-> Due(q, d)']
      OBVIOUS
    <2>2. \A q \in Asked : Due(q, d)' \in Nat
      BY AskedTypes DEF SpendTypeOK, Due
    <2>3. Outstanding(d)' = SumOver(Asked, fn)
      BY <2>1 DEF Outstanding
    <2> QED
      BY <2>1, <2>2, <2>3, SumOverType, SpendAssumption
  <1> QED
    BY <1>1, <1>2, <1>3 DEF SpendInv, GrantsAreReserved

LEMMA ExecuteWriteKeeps ==
  ASSUME SpendInv, NEW r \in Asked, ExecuteWrite(r)
  PROVE  SpendInv'
  <1>1. ChainTypes /\ day' = day /\ restarts' = restarts /\ ChainRests
    BY DEF SpendInv, SpendTypeOK, ChainTypes, ExecuteWrite
  <1>2. ChainTypes' /\ AllowanceIsGranted' /\ granted' = granted
    BY <1>1, RestsKeeps DEF SpendInv
  <1>3. granted' = [granted EXCEPT ![day] = @ + 0]
    BY <1>2 DEF SpendInv, SpendTypeOK
  <1>4. r.amount \in Nat /\ Approving(r) \in Nat /\ Approving(r) <= r.amount
    BY AskedTypes
  <1>5. CASE AssertSpendPolicy(r) /\ ReserveSpend(r) /\ SetWrite(r, "executing")
    <2>1. /\ spendLedger' = [spendLedger EXCEPT ![day] = @ + r.amount]
          /\ write' = [write EXCEPT ![r].state = "executing"]
      BY <1>5 DEF ReserveSpend, SetWrite
    <2>2. SpendTypeOK'
      <3>1. spendLedger[day] + r.amount <= DailyUsdc
        BY <1>5 DEF AssertSpendPolicy
      <3>2. spendLedger' \in [Days -> 0 .. DailyUsdc]
        BY <2>1, <3>1, <1>4, SpendAssumption DEF SpendInv, SpendTypeOK
      <3> QED
        BY <1>1, <1>2, <2>1, <3>2 DEF SpendInv, SpendTypeOK, ChainTypes
    <2>3. Total(spendLedger') <= MonthlyUsdc
      <3>1. spendLedger \in [Days -> Nat] /\ day \in Days
        BY SpendAssumption DEF SpendInv, SpendTypeOK
      <3>2. Total(spendLedger') = Total(spendLedger) + r.amount
        BY <1>4, <2>1, <3>1, TotalChanges
      <3> QED
        BY <1>5, <3>2 DEF AssertSpendPolicy
    <2>4. \A d \in Days : (IF d = day THEN 0 ELSE 0) + Due(r, d)'
                            <= Due(r, d) + (IF d = day THEN r.amount ELSE 0)
      <3> SUFFICES ASSUME NEW d \in Days
                   PROVE 0 + Due(r, d)' <= Due(r, d) + (IF d = day THEN r.amount ELSE 0)
        OBVIOUS
      <3>1. write'[r].state = "executing" /\ write'[r].loose = write[r].loose
        BY <2>1 DEF SpendInv, SpendTypeOK
      <3>2. write[r].state # "executing"
        BY DEF ExecuteWrite
      <3> QED
        BY <1>1, <1>4, <3>1, <3>2 DEF Due
    <2>5. \A q \in Asked : q # r => write'[q] = write[q]
      BY <2>1 DEF SpendInv, SpendTypeOK
    <2>6. GrantsAreReserved'
      <3>1. day \in Days /\ 0 \in Nat
        BY DEF SpendInv, SpendTypeOK
      <3> QED
        BY <1>1, <1>3, <1>4, <2>1, <2>2, <2>4, <2>5, <3>1, WritesKeepReserved
    <2> QED
      BY <1>2, <2>2, <2>3, <2>6 DEF SpendInv
  <1>6. CASE SetWrite(r, "refused") /\ UNCHANGED spendLedger
    <2>1. write' = [write EXCEPT ![r].state = "refused"]
      BY <1>6 DEF SetWrite
    <2>2. SpendTypeOK'
      BY <1>1, <1>2, <1>6, <2>1 DEF SpendInv, SpendTypeOK, ChainTypes
    <2>3. \A d \in Days : \A q \in Asked : Due(q, d)' = Due(q, d)
      BY <1>1, <2>1 DEF SpendInv, SpendTypeOK, Due, ExecuteWrite
    <2>4. \A d \in Days : Outstanding(d)' = Outstanding(d)
      <3> SUFFICES ASSUME NEW d \in Days PROVE Outstanding(d)' = Outstanding(d)
        OBVIOUS
      <3>1. Due(r, d)' = Due(r, d) /\ Due(r, d) \in Nat
        BY <2>3, DueType DEF SpendInv
      <3>2. Outstanding(d)' = Outstanding(d) + (Due(r, d)' - Due(r, d))
        BY <2>2, <2>3, OutstandingChanges DEF SpendInv
      <3>3. Outstanding(d) \in Nat
        BY OutstandingType DEF SpendInv
      <3> QED
        BY <3>1, <3>2, <3>3
    <2> QED
      BY <1>2, <1>6, <2>2, <2>4 DEF SpendInv, GrantsAreReserved
  <1> QED
    BY <1>5, <1>6 DEF ExecuteWrite

LEMMA WriteTypes ==
  ASSUME SpendTypeOK, NEW r \in Asked
  PROVE  /\ write[r] \in [state : SpendStates, loose : SUBSET Days]
         /\ Loosened(r) \in SUBSET Days
  BY DEF SpendTypeOK, SpendStates, Loosened

LEMMA WriteEndsKeeps ==
  ASSUME SpendInv, NEW r \in Asked, WriteEnds(r)
  PROVE  SpendInv'
  <1>1. /\ ChainTypes /\ AllowanceIsGranted /\ day' = day /\ restarts' = restarts
        /\ spendLedger' = spendLedger /\ day \in Days /\ write[r].state = "executing"
    BY DEF SpendInv, SpendTypeOK, ChainTypes, WriteEnds
  <1>2. spendLedger' = [spendLedger EXCEPT ![day] = @ + 0]
    BY <1>1 DEF SpendInv, SpendTypeOK
  <1>3. Approving(r) \in Nat
    BY AskedTypes
  <1>4. CASE Mines(r, day) /\ SetWrite(r, "confirmed")
    <2>1. ChainTypes' /\ AllowanceIsGranted' /\ granted' = [granted EXCEPT ![day] = @ + Approving(r)]
      BY <1>1, <1>4, MinesGrants
    <2>2. write' = [write EXCEPT ![r].state = "confirmed"]
      BY <1>4 DEF SetWrite
    <2>3. SpendTypeOK'
      BY <1>1, <2>1, <2>2 DEF SpendInv, SpendTypeOK, ChainTypes
    <2>4. \A q \in Asked : q # r => write'[q] = write[q]
      BY <2>2 DEF SpendInv, SpendTypeOK
    <2>5. \A d \in Days : (IF d = day THEN Approving(r) ELSE 0) + Due(r, d)'
                            <= Due(r, d) + (IF d = day THEN 0 ELSE 0)
      <3>1. write'[r].state = "confirmed" /\ write'[r].loose = write[r].loose
        BY <2>2 DEF SpendInv, SpendTypeOK
      <3> QED
        BY <1>1, <1>3, <3>1 DEF Due
    <2>6. GrantsAreReserved'
      BY <1>1, <1>2, <1>3, <2>1, <2>3, <2>4, <2>5, WritesKeepReserved
    <2> QED
      BY <1>1, <2>1, <2>3, <2>6 DEF SpendInv
  <1>5. CASE ChainRests /\ \E s \in {"failed", "unknown"} :
                 \/ SetWrite(r, s)
                 \/ write' = [write EXCEPT ![r] = [state |-> s, loose |-> Loosened(r)]]
    <2>1. ChainTypes' /\ AllowanceIsGranted' /\ granted' = granted
      BY <1>1, <1>5, RestsKeeps
    <2>2. PICK w \in [state : {"failed", "unknown"}, loose : {write[r].loose, Loosened(r)}] :
            write' = [write EXCEPT ![r] = w]
      <3>1. PICK s \in {"failed", "unknown"} :
                 \/ SetWrite(r, s)
                 \/ write' = [write EXCEPT ![r] = [state |-> s, loose |-> Loosened(r)]]
        BY <1>5
      <3>2. CASE SetWrite(r, s)
        <4>1. PICK w : w = [state |-> s, loose |-> write[r].loose]
          OBVIOUS
        <4>2. [write EXCEPT ![r].state = s] = [write EXCEPT ![r] = w]
          <5>1. [write[r] EXCEPT !.state = s] = w
            BY <4>1, WriteTypes DEF SpendInv
          <5>2. write = [q \in Asked |-> write[q]]
            BY DEF SpendInv, SpendTypeOK
          <5> QED
            BY <5>1, <5>2
        <4>3. w \in [state : {"failed", "unknown"}, loose : {write[r].loose, Loosened(r)}]
          BY <4>1
        <4>4. write' = [write EXCEPT ![r] = w]
          BY <3>2, <4>2 DEF SetWrite
        <4> QED
          BY <4>3, <4>4
      <3>3. CASE write' = [write EXCEPT ![r] = [state |-> s, loose |-> Loosened(r)]]
        BY <3>1, <3>3
      <3> QED
        BY <3>1, <3>2, <3>3
    <2>3. w \in [state : SpendStates, loose : SUBSET Days]
      BY <2>2, WriteTypes DEF SpendInv, SpendStates
    <2>4. SpendTypeOK'
      BY <1>1, <2>1, <2>2, <2>3 DEF SpendInv, SpendTypeOK, ChainTypes, SpendStates
    <2>5. \A q \in Asked : q # r => write'[q] = write[q]
      BY <2>2 DEF SpendInv, SpendTypeOK
    <2>6. \A d \in Days : (IF d = day THEN 0 ELSE 0) + Due(r, d)'
                            <= Due(r, d) + (IF d = day THEN 0 ELSE 0)
      <3>1. write'[r] = w /\ w.state # "executing" /\ w.loose \in {write[r].loose, Loosened(r)}
        BY <2>2 DEF SpendInv, SpendTypeOK
      <3> QED
        BY <1>1, <1>3, <3>1 DEF Due, Loosened
    <2>7. granted' = [granted EXCEPT ![day] = @ + 0]
      BY <2>1 DEF SpendInv, SpendTypeOK
    <2>8. GrantsAreReserved'
      <3>1. 0 \in Nat
        OBVIOUS
      <3> QED
        BY <1>1, <1>2, <2>4, <2>5, <2>6, <2>7, <3>1, WritesKeepReserved
    <2> QED
      BY <1>1, <2>1, <2>4, <2>8 DEF SpendInv
  <1>6. CASE ChainRests /\ SetWrite(r, "failed")
    BY <1>5, <1>6
  <1> QED
    BY <1>4, <1>5, <1>6 DEF WriteEnds

LEMMA ReconcileWriteKeeps ==
  ASSUME SpendInv, NEW r \in Asked, ReconcileWrite(r)
  PROVE  SpendInv'
  <1>1. /\ ChainTypes /\ AllowanceIsGranted /\ day' = day /\ restarts' = restarts
        /\ spendLedger' = spendLedger /\ ChainRests /\ write[r].state = "unknown"
    BY DEF SpendInv, SpendTypeOK, ChainTypes, ReconcileWrite
  <1>2. ChainTypes' /\ AllowanceIsGranted' /\ granted' = granted
    BY <1>1, RestsKeeps
  <1>3. PICK s \in {"confirmed", "failed"} : write' = [write EXCEPT ![r].state = s]
    BY DEF ReconcileWrite, SetWrite
  <1>4. SpendTypeOK'
    BY <1>1, <1>2, <1>3 DEF SpendInv, SpendTypeOK, ChainTypes
  <1>5. \A d \in Days : \A q \in Asked : Due(q, d)' <= Due(q, d)
    <2> SUFFICES ASSUME NEW d \in Days, NEW q \in Asked PROVE Due(q, d)' <= Due(q, d)
      OBVIOUS
    <2>1. Due(q, d)' = Due(q, d)
      BY <1>1, <1>3 DEF SpendInv, SpendTypeOK, Due
    <2> QED
      BY <2>1, DueType DEF SpendInv
  <1>6. GrantsAreReserved'
    BY <1>1, <1>2, <1>4, <1>5, ReservedWhenFalling
  <1> QED
    BY <1>1, <1>2, <1>4, <1>6 DEF SpendInv

LEMMA StragglesKeeps ==
  ASSUME SpendInv, NEW r \in Asked, Straggles(r)
  PROVE  SpendInv'
  <1>1. PICK d \in Days :
          /\ d \in write[r].loose /\ write' = [write EXCEPT ![r].loose = @ \ {d}]
          /\ Mines(r, d) \/ ChainRests
          /\ spendLedger' = spendLedger /\ day' = day /\ restarts' = restarts
    BY DEF Straggles
  <1>2. ChainTypes /\ AllowanceIsGranted /\ Approving(r) \in Nat
    BY AskedTypes DEF SpendInv, SpendTypeOK, ChainTypes
  <1>3. write'[r].state = write[r].state /\ write'[r].loose = write[r].loose \ {d}
    BY <1>1 DEF SpendInv, SpendTypeOK
  <1>4. \A q \in Asked : q # r => write'[q] = write[q]
    BY <1>1 DEF SpendInv, SpendTypeOK
  <1>5. write' \in [Asked -> [state : SpendStates, loose : SUBSET Days]]
    BY <1>1 DEF SpendInv, SpendTypeOK, SpendStates
  <1>6. CASE Mines(r, d)
    <2>1. ChainTypes' /\ AllowanceIsGranted' /\ granted' = [granted EXCEPT ![d] = @ + Approving(r)]
      BY <1>1, <1>2, <1>6, MinesGrants
    <2>2. SpendTypeOK'
      BY <1>1, <1>5, <2>1 DEF SpendInv, SpendTypeOK, ChainTypes, SpendStates
    <2>3. spendLedger' = [spendLedger EXCEPT ![day] = @ + 0]
      BY <1>1 DEF SpendInv, SpendTypeOK
    <2>4. \A e \in Days : (IF e = d THEN Approving(r) ELSE 0) + Due(r, e)'
                            <= Due(r, e) + (IF e = day THEN 0 ELSE 0)
      BY <1>1, <1>2, <1>3 DEF Due
    <2>5. GrantsAreReserved'
      <3>1. 0 \in Nat
        OBVIOUS
      <3> QED
        BY <1>1, <1>2, <1>4, <2>1, <2>2, <2>3, <2>4, <3>1, WritesKeepReserved
    <2> QED
      BY <1>1, <2>1, <2>2, <2>5 DEF SpendInv
  <1>7. CASE ChainRests
    <2>1. ChainTypes' /\ AllowanceIsGranted' /\ granted' = granted
      BY <1>2, <1>7, RestsKeeps
    <2>2. SpendTypeOK'
      BY <1>1, <1>5, <2>1 DEF SpendInv, SpendTypeOK, ChainTypes, SpendStates
    <2>3. \A e \in Days : \A q \in Asked : Due(q, e)' <= Due(q, e)
      <3> SUFFICES ASSUME NEW e \in Days, NEW q \in Asked PROVE Due(q, e)' <= Due(q, e)
        OBVIOUS
      <3>1. write'[q].state = write[q].state /\ (e \in write'[q].loose => e \in write[q].loose)
        BY <1>3, <1>4
      <3>2. Approving(q) \in Nat
        BY AskedTypes
      <3> QED
        BY <1>1, <3>1, <3>2 DEF Due
    <2>4. GrantsAreReserved'
      BY <1>1, <2>1, <2>2, <2>3, ReservedWhenFalling
    <2> QED
      BY <1>1, <2>1, <2>2, <2>4 DEF SpendInv
  <1> QED
    BY <1>1, <1>6, <1>7

LEMMA OthersActKeeps == ASSUME SpendInv, OthersAct PROVE SpendInv'
  <1>1. PICK j \in SpendJobs : \/ \E a \in Amounts : escrowJob' = [escrowJob EXCEPT ![j].budget = BudgetUnits(a)]
                              \/ \E s \in JobStatuses : Moved(j, s)
    BY DEF OthersAct, JobStatuses
  <1>2. /\ UNCHANGED <<write, spendLedger, day, allowance, granted, escrowed, restarts>>
    BY DEF OthersAct
  <1>3. \A a \in Amounts : BudgetUnits(a) \in Nat
    BY SpendAssumption DEF BudgetUnits
  <1>4. escrowJob' \in [SpendJobs -> [status : JobStatuses, budget : Nat]]
    BY <1>1, <1>3 DEF SpendInv, SpendTypeOK, Moved
  <1>5. SpendTypeOK'
    BY <1>2, <1>4 DEF SpendInv, SpendTypeOK
  <1>6. \A d \in Days : \A q \in Asked : Due(q, d)' <= Due(q, d)
    <2> SUFFICES ASSUME NEW d \in Days, NEW q \in Asked PROVE Due(q, d)' <= Due(q, d)
      OBVIOUS
    <2>1. Due(q, d)' = Due(q, d)
      BY <1>2 DEF Due
    <2> QED
      BY <2>1, DueType DEF SpendInv
  <1>7. GrantsAreReserved'
    BY <1>2, <1>5, <1>6, ReservedWhenFalling
  <1> QED
    BY <1>2, <1>5, <1>7 DEF SpendInv, AllowanceIsGranted

LEMMA RestartsKeeps == ASSUME SpendInv, Restarts PROVE SpendInv'
  <1>1. /\ ChainTypes /\ AllowanceIsGranted /\ day' = day /\ restarts' = restarts + 1
        /\ restarts < MaxRestarts /\ spendLedger' = spendLedger /\ ChainRests /\ day \in Days
    BY DEF SpendInv, SpendTypeOK, ChainTypes, Restarts
  <1>2. ChainTypes' /\ AllowanceIsGranted' /\ granted' = granted
    BY <1>1, RestsKeeps
  <1>3. PICK left \in BOOLEAN :
          write' = [r \in Asked |->
                     IF write[r].state \in {"executing", "refused"}
                     THEN [state |-> "failed",
                           loose |-> IF left /\ write[r].state = "executing" THEN Loosened(r)
                                     ELSE write[r].loose]
                     ELSE write[r]]
    BY DEF Restarts
  <1>4. ASSUME NEW r \in Asked
        PROVE  /\ write'[r] \in [state : SpendStates, loose : SUBSET Days]
               /\ \/ write'[r] = write[r]
                  \/ write'[r].state = "failed" /\ write'[r].loose = write[r].loose
                  \/ write'[r].state = "failed" /\ write[r].state = "executing"
                     /\ write'[r].loose = write[r].loose \cup {day}
    BY <1>3, WriteTypes DEF SpendInv, SpendStates, Loosened
  <1>5. SpendTypeOK'
    <2>1. write' \in [Asked -> [state : SpendStates, loose : SUBSET Days]]
      BY <1>3, <1>4
    <2> QED
      BY <1>1, <1>2, <2>1, SpendAssumption DEF SpendInv, SpendTypeOK, ChainTypes, SpendStates
  <1>6. \A d \in Days : \A q \in Asked : Due(q, d)' <= Due(q, d)
    <2> SUFFICES ASSUME NEW d \in Days, NEW q \in Asked PROVE Due(q, d)' <= Due(q, d)
      OBVIOUS
    <2>1. Approving(q) \in Nat
      BY AskedTypes
    <2> QED
      BY <1>1, <1>4, <2>1 DEF Due
  <1>7. GrantsAreReserved'
    BY <1>1, <1>2, <1>5, <1>6, ReservedWhenFalling
  <1> QED
    BY <1>1, <1>2, <1>5, <1>7 DEF SpendInv

LEMMA NewDayKeeps == ASSUME SpendInv, NewDay PROVE SpendInv'
  <1>1. /\ ChainTypes /\ AllowanceIsGranted /\ day' = day + 1 /\ day < LastDay
        /\ UNCHANGED <<write, spendLedger, restarts>> /\ ChainRests
        /\ \A r \in Asked : write[r].state # "executing"
    BY DEF SpendInv, SpendTypeOK, ChainTypes, NewDay
  <1>2. ChainTypes' /\ AllowanceIsGranted' /\ granted' = granted
    BY <1>1, RestsKeeps
  <1>3. day' \in Days
    BY <1>1, SpendAssumption DEF SpendInv, SpendTypeOK, Days
  <1>4. SpendTypeOK'
    BY <1>1, <1>2, <1>3 DEF SpendInv, SpendTypeOK, ChainTypes
  <1>5. \A d \in Days : \A q \in Asked : Due(q, d)' <= Due(q, d)
    <2> SUFFICES ASSUME NEW d \in Days, NEW q \in Asked PROVE Due(q, d)' <= Due(q, d)
      OBVIOUS
    <2>1. Due(q, d)' = Due(q, d)
      BY <1>1 DEF Due
    <2> QED
      BY <2>1, DueType DEF SpendInv
  <1>6. GrantsAreReserved'
    BY <1>1, <1>2, <1>4, <1>5, ReservedWhenFalling
  <1> QED
    BY <1>1, <1>2, <1>4, <1>6 DEF SpendInv

LEMMA NextSpendInv == SpendInv /\ [SpendNext]_spendVars => SpendInv'
  <1> SUFFICES ASSUME SpendInv, [SpendNext]_spendVars PROVE SpendInv'
    OBVIOUS
  <1>1. CASE UNCHANGED spendVars
    <2>1. SpendTypeOK' /\ AllowanceIsGranted' /\ Total(spendLedger') <= MonthlyUsdc
          /\ spendLedger' = spendLedger /\ granted' = granted
      BY <1>1 DEF SpendInv, SpendTypeOK, AllowanceIsGranted, spendVars
    <2>2. \A d \in Days : \A q \in Asked : Due(q, d)' <= Due(q, d)
      <3> SUFFICES ASSUME NEW d \in Days, NEW q \in Asked PROVE Due(q, d)' <= Due(q, d)
        OBVIOUS
      <3>1. Due(q, d)' = Due(q, d)
        BY <1>1 DEF Due, spendVars
      <3> QED
        BY <3>1, DueType DEF SpendInv
    <2>3. GrantsAreReserved'
      BY <2>1, <2>2, ReservedWhenFalling
    <2> QED
      BY <2>1, <2>3 DEF SpendInv
  <1>2. CASE SpendNext
    BY <1>2, ExecuteWriteKeeps, WriteEndsKeeps, ReconcileWriteKeeps, StragglesKeeps,
       OthersActKeeps, RestartsKeeps, NewDayKeeps DEF SpendNext
  <1> QED
    BY <1>1, <1>2

LEMMA SpendInvGives == SpendInv => SpendTypeOK /\ SpentWithinLimits
  <1> SUFFICES ASSUME SpendInv PROVE SpendTypeOK /\ SpentWithinLimits
    OBVIOUS
  <1>1. ASSUME NEW d \in Days
        PROVE  /\ granted[d] \in Nat /\ spendLedger[d] \in Nat
               /\ granted[d] <= spendLedger[d] /\ spendLedger[d] <= DailyUsdc
    <2>1. /\ granted[d] \in Nat /\ spendLedger[d] \in 0 .. DailyUsdc
          /\ granted[d] + Outstanding(d) <= spendLedger[d]
      BY DEF SpendInv, SpendTypeOK, GrantsAreReserved
    <2>2. Outstanding(d) \in Nat
      BY OutstandingType DEF SpendInv
    <2> QED
      BY <2>1, <2>2, SpendAssumption
  <1>2. Total(granted) <= Total(spendLedger)
    BY <1>1, SumIsMonotone, SpendAssumption DEF Total, Days
  <1>3. Total(granted) \in Nat /\ Total(spendLedger) \in Nat
    BY <1>1, SumType, SpendAssumption DEF Total, Days
  <1>4. Total(spendLedger) <= MonthlyUsdc /\ allowance + escrowed <= Total(granted)
        /\ allowance \in Nat /\ escrowed \in Nat
    BY DEF SpendInv, AllowanceIsGranted, SpendTypeOK
  <1>5. Total(granted) <= MonthlyUsdc
    BY <1>2, <1>3, <1>4, SpendAssumption
  <1>6. escrowed <= Total(granted)
    BY <1>3, <1>4
  <1>7. \A d \in Days : granted[d] <= DailyUsdc
    BY <1>1, SpendAssumption
  <1> QED
    BY <1>5, <1>6, <1>7 DEF SpendInv, SpentWithinLimits, AllowanceUnits
-----------------------------------------------------------------------------
(* A call holds a slot from its dispatch to its end, or has been counted;  *)
(* only a result that is too large gives back a slot it did not hold.      *)

Done     == {c \in ToolCalls : toolCall[c] \in {"late", "ended"}}
InFlight == {c \in ToolCalls : Running(c)}

SlotsAreHeld ==
    /\ callCount <= Cardinality(Done)
    /\ pendingCalls <= Cardinality(InFlight)
    /\ oversized \subseteq Done
    /\ Cardinality(dispatched) <= callCount + pendingCalls + Cardinality(oversized)

ConnectionIsPromised ==
    IF connection.closed THEN ~connection.promise
    ELSE /\ connection.client => connection.promise
         /\ connections = IF connection.promise THEN 1 ELSE 0

BrokerInv ==
    /\ BrokerTypeOK
    /\ SlotsAreHeld /\ CallsAreBounded
    /\ ConnectionIsPromised /\ OneConnection

LEMMA ToolSets ==
  ASSUME NEW S, S \subseteq ToolCalls
  PROVE  /\ IsFiniteSet(S) /\ Cardinality(S) \in Nat
         /\ Cardinality(S) <= Cardinality(ToolCalls) /\ Cardinality(ToolCalls) \in Nat
         /\ \A c : IsFiniteSet(S \cup {c}) /\ IsFiniteSet(S \ {c})
         /\ \A c : Cardinality(S \cup {c}) = Cardinality(S) + (IF c \in S THEN 0 ELSE 1)
         /\ \A c : Cardinality(S \ {c}) = Cardinality(S) - (IF c \in S THEN 1 ELSE 0)
  <1>1. IsFiniteSet(S) /\ Cardinality(S) <= Cardinality(ToolCalls)
    BY FS_Subset, BrokerAssumption
  <1>2. Cardinality(S) \in Nat /\ Cardinality(ToolCalls) \in Nat
    BY <1>1, FS_CardinalityType, BrokerAssumption
  <1> QED
    BY <1>1, <1>2, FS_AddElement, FS_RemoveElement

LEMMA InitBrokerInv == BrokerInit => BrokerInv
  <1> SUFFICES ASSUME BrokerInit PROVE BrokerInv
    OBVIOUS
  <1>1. Cardinality({}) = 0
    BY FS_EmptySet
  <1>2. Cardinality(ToolCalls) \in Nat /\ Cardinality(Done) \in Nat /\ Cardinality(InFlight) \in Nat
    BY ToolSets DEF Done, InFlight
  <1>3. BrokerTypeOK
    BY <1>2 DEF BrokerInit, BrokerTypeOK
  <1>4. SlotsAreHeld /\ CallsAreBounded
    BY <1>1, <1>2, BrokerAssumption DEF BrokerInit, SlotsAreHeld, CallsAreBounded
  <1> QED
    BY <1>3, <1>4 DEF BrokerInit, BrokerInv, ConnectionIsPromised, OneConnection

LEMMA BrokerNumbers ==
  ASSUME BrokerInv
  PROVE  /\ callCount \in Nat /\ pendingCalls \in Nat /\ connections \in Nat
         /\ Cardinality(Done) \in Nat /\ Cardinality(InFlight) \in Nat
         /\ Cardinality(dispatched) \in Nat /\ Cardinality(oversized) \in Nat
         /\ Cardinality(ToolCalls) \in Nat /\ MaxCalls \in Nat
         /\ Done \subseteq ToolCalls /\ InFlight \subseteq ToolCalls
         /\ dispatched \subseteq ToolCalls /\ oversized \subseteq ToolCalls
         /\ totalCost \in Nat
  <1>1. /\ Done \subseteq ToolCalls /\ InFlight \subseteq ToolCalls
        /\ dispatched \subseteq ToolCalls /\ oversized \subseteq ToolCalls
    BY BrokerAssumption DEF BrokerInv, BrokerTypeOK, Done, InFlight
  <1>2. /\ Cardinality(Done) \in Nat /\ Cardinality(InFlight) \in Nat
        /\ Cardinality(dispatched) \in Nat /\ Cardinality(oversized) \in Nat
        /\ Cardinality(ToolCalls) \in Nat
    BY <1>1, ToolSets
  <1> QED
    BY <1>1, <1>2, BrokerAssumption DEF BrokerInv, BrokerTypeOK

\* A handler that holds a slot ends, is answered too late, or comes back.
LEMMA CallEnds ==
  ASSUME BrokerInv, NEW c \in ToolCalls, Running(c), NEW stage \in {"late", "ended"}, Moves(c, stage)
  PROVE  /\ Cardinality(Done)' = Cardinality(Done) + 1
         /\ Cardinality(InFlight)' = Cardinality(InFlight) - 1
         /\ Done' = Done \cup {c} /\ Cardinality(Done)' <= Cardinality(ToolCalls)
         /\ c \notin oversized /\ Cardinality(InFlight) > 0
         /\ toolCall' \in [ToolCalls -> {"none", "proxying", "connecting", "running", "late", "ended"}]
  <1>1. /\ toolCall' = [toolCall EXCEPT ![c] = stage]
        /\ toolCall \in [ToolCalls -> {"none", "proxying", "connecting", "running", "late", "ended"}]
        /\ toolCall[c] \notin {"late", "ended"} /\ c \in InFlight
    BY DEF BrokerInv, BrokerTypeOK, Moves, Running, InFlight
  <1>2. Done' = Done \cup {c}
    BY <1>1 DEF Done
  <1>3. InFlight' = InFlight \ {c}
    BY <1>1 DEF InFlight, Running
  <1>4. c \notin Done /\ Done \cup {c} \subseteq ToolCalls
    BY <1>1 DEF Done
  <1>5. Cardinality(Done \cup {c}) = Cardinality(Done) + 1
    BY <1>4, BrokerNumbers, ToolSets
  <1>6. Cardinality(InFlight \ {c}) = Cardinality(InFlight) - 1
    BY <1>1, BrokerNumbers, ToolSets
  <1>7. Cardinality(InFlight) > 0
    BY <1>1, <1>6, BrokerNumbers, ToolSets
  <1>8. Cardinality(Done \cup {c}) <= Cardinality(ToolCalls)
    BY <1>4, ToolSets
  <1>9. c \notin oversized
    BY <1>4 DEF BrokerInv, SlotsAreHeld
  <1> QED
    BY <1>1, <1>2, <1>3, <1>5, <1>6, <1>7, <1>8, <1>9

LEMMA ConnectionRests ==
  ASSUME BrokerInv, UNCHANGED <<connection, connections>>
  PROVE  ConnectionIsPromised' /\ OneConnection'
  BY DEF BrokerInv, ConnectionIsPromised, OneConnection

\* The call is counted, and gives its slot back.
LEMMA BookedKeeps ==
  ASSUME BrokerInv, NEW c \in ToolCalls, Running(c), NEW stage \in {"late", "ended"}, Moves(c, stage),
         callCount' = callCount + 1, pendingCalls' = Released(1), totalCost' \in Nat,
         paid' \in SUBSET ToolCalls, UNCHANGED <<dispatched, oversized, connection, connections>>
  PROVE  BrokerInv'
  <1>1. pendingCalls' = IF pendingCalls > 1 THEN pendingCalls - 1 ELSE 0
    BY DEF Released
  <1>2. /\ callCount <= Cardinality(Done) /\ pendingCalls <= Cardinality(InFlight)
        /\ Cardinality(dispatched) <= callCount + pendingCalls + Cardinality(oversized)
        /\ oversized \subseteq Done
    BY DEF BrokerInv, SlotsAreHeld
  <1>3. SlotsAreHeld'
    <2>1. (callCount <= Cardinality(Done))'
      BY <1>2, BrokerNumbers, CallEnds
    <2>2. (pendingCalls <= Cardinality(InFlight))'
      BY <1>1, <1>2, BrokerNumbers, CallEnds
    <2>3. (oversized \subseteq Done)'
      BY <1>2, CallEnds
    <2>4. (Cardinality(dispatched) <= callCount + pendingCalls + Cardinality(oversized))'
      BY <1>1, <1>2, BrokerNumbers
    <2> QED
      BY <2>1, <2>2, <2>3, <2>4 DEF SlotsAreHeld
  <1>4. callCount' \in 0 .. Cardinality(ToolCalls) /\ pendingCalls' \in 0 .. Cardinality(ToolCalls)
    <2>1. pendingCalls \in 0 .. Cardinality(ToolCalls) /\ connections \in 0 .. Cardinality(ToolCalls)
      BY DEF BrokerInv, BrokerTypeOK
    <2> QED
      BY <1>1, <1>2, <2>1, BrokerNumbers, CallEnds
  <1>5. BrokerTypeOK'
    BY <1>4, CallEnds DEF BrokerInv, BrokerTypeOK
  <1>6. CallsAreBounded'
    BY DEF BrokerInv, CallsAreBounded
  <1> QED
    BY <1>3, <1>5, <1>6, ConnectionRests DEF BrokerInv

LEMMA CostType == \A c \in ToolCalls : CostOf[c] \in Nat
  BY BrokerAssumption

LEMMA EndingsKeep ==
  ASSUME BrokerInv, NEW c \in ToolCalls,
         PostExecute(c) \/ HandlerThrows(c) \/ TimesOut(c) \/ RefusedConnection(c)
  PROVE  BrokerInv'
  <1>1. /\ Running(c) /\ callCount' = callCount + 1 /\ pendingCalls' = Released(1)
        /\ UNCHANGED <<dispatched, oversized, connection, connections>>
    BY DEF PostExecute, HandlerThrows, TimesOut, RefusedConnection, RecordCall, CallIs, Running
  <1>2. paid' \in SUBSET ToolCalls
    BY DEF PostExecute, HandlerThrows, TimesOut, RefusedConnection, Pays, MayPay, BrokerInv, BrokerTypeOK
  <1>3. totalCost' \in Nat
    BY CostType, BrokerNumbers DEF PostExecute, HandlerThrows, TimesOut, RefusedConnection, RecordCall
  <1>4. PICK stage \in {"late", "ended"} : Moves(c, stage)
    BY DEF PostExecute, HandlerThrows, TimesOut, RefusedConnection
  <1> QED
    BY <1>1, <1>2, <1>3, <1>4, BookedKeeps

\* A result that is too large gives back two slots, and is on the record.
LEMMA OutputTooLargeKeeps ==
  ASSUME BrokerInv, NEW c \in ToolCalls, OutputTooLarge(c)
  PROVE  BrokerInv'
  <1>1. /\ Running(c) /\ Moves(c, "ended") /\ callCount' = callCount + 1
        /\ pendingCalls' = (IF pendingCalls > 2 THEN pendingCalls - 2 ELSE 0)
        /\ totalCost' = totalCost + 0 /\ oversized' = oversized \cup {c} /\ c \in LargeOutputs
        /\ UNCHANGED <<dispatched, connection, connections>> /\ paid' \in SUBSET ToolCalls
    BY DEF OutputTooLarge, RecordCall, Released, CallIs, Running, Pays, BrokerInv, BrokerTypeOK
  <1>2. /\ callCount <= Cardinality(Done) /\ pendingCalls <= Cardinality(InFlight)
        /\ Cardinality(dispatched) <= callCount + pendingCalls + Cardinality(oversized)
        /\ oversized \subseteq Done
    BY DEF BrokerInv, SlotsAreHeld
  <1>3. Cardinality(oversized') = Cardinality(oversized) + 1
    <2>1. c \notin oversized
      BY <1>1, CallEnds
    <2> QED
      BY <1>1, <2>1, BrokerNumbers, ToolSets
  <1>4. SlotsAreHeld'
    <2>1. (callCount <= Cardinality(Done))'
      BY <1>1, <1>2, BrokerNumbers, CallEnds
    <2>2. (pendingCalls <= Cardinality(InFlight))'
      BY <1>1, <1>2, BrokerNumbers, CallEnds
    <2>3. (oversized \subseteq Done)'
      BY <1>1, <1>2, CallEnds
    <2>4. (Cardinality(dispatched) <= callCount + pendingCalls + Cardinality(oversized))'
      BY <1>1, <1>2, <1>3, BrokerNumbers
    <2> QED
      BY <2>1, <2>2, <2>3, <2>4 DEF SlotsAreHeld
  <1>5. callCount' \in 0 .. Cardinality(ToolCalls) /\ pendingCalls' \in 0 .. Cardinality(ToolCalls)
    <2>1. pendingCalls \in 0 .. Cardinality(ToolCalls)
      BY DEF BrokerInv, BrokerTypeOK
    <2> QED
      BY <1>1, <1>2, <2>1, BrokerNumbers, CallEnds
  <1>6. BrokerTypeOK'
    BY <1>1, <1>5, BrokerNumbers, CallEnds DEF BrokerInv, BrokerTypeOK
  <1>7. CallsAreBounded'
    BY <1>1, <1>3, BrokerNumbers DEF BrokerInv, CallsAreBounded
  <1> QED
    BY <1>1, <1>4, <1>6, <1>7, ConnectionRests DEF BrokerInv

\* A late handler comes back: it is done already.
LEMMA LateHandlerEndsKeeps ==
  ASSUME BrokerInv, NEW c \in ToolCalls, LateHandlerEnds(c)
  PROVE  BrokerInv'
  <1>1. /\ toolCall[c] = "late" /\ toolCall' = [toolCall EXCEPT ![c] = "ended"]
        /\ UNCHANGED <<callCount, pendingCalls, totalCost, dispatched, oversized, connection, connections>>
        /\ paid' \in SUBSET ToolCalls
    BY DEF LateHandlerEnds, CallIs, Moves, MayPay, Pays, BrokerInv, BrokerTypeOK
  <1>2. Done' = Done /\ InFlight' = InFlight
    BY <1>1 DEF Done, InFlight, Running, BrokerInv, BrokerTypeOK
  <1>3. BrokerTypeOK'
    BY <1>1 DEF BrokerInv, BrokerTypeOK
  <1>4. SlotsAreHeld' /\ CallsAreBounded'
    BY <1>1, <1>2 DEF BrokerInv, SlotsAreHeld, CallsAreBounded
  <1> QED
    BY <1>1, <1>3, <1>4, ConnectionRests DEF BrokerInv

\* A refusal ends a call that held no slot.
LEMMA RefuseKeeps ==
  ASSUME BrokerInv, NEW c \in ToolCalls, Refuse(c)
  PROVE  BrokerInv'
  <1>1. /\ toolCall[c] = "none" /\ toolCall' = [toolCall EXCEPT ![c] = "ended"]
        /\ callCount' \in {callCount, callCount + 1}
        /\ UNCHANGED <<pendingCalls, totalCost, dispatched, paid, oversized, connection, connections>>
    BY DEF Refuse, CallIs, Moves
  <1>2. Done' = Done \cup {c} /\ InFlight' = InFlight /\ c \notin Done
    BY <1>1 DEF Done, InFlight, Running, BrokerInv, BrokerTypeOK
  <1>3. Cardinality(Done') = Cardinality(Done) + 1
    BY <1>2, BrokerNumbers, ToolSets
  <1>4. Cardinality(Done') <= Cardinality(ToolCalls)
    BY <1>2, BrokerNumbers, ToolSets
  <1>5. /\ callCount <= Cardinality(Done) /\ pendingCalls <= Cardinality(InFlight)
        /\ Cardinality(dispatched) <= callCount + pendingCalls + Cardinality(oversized)
        /\ oversized \subseteq Done
    BY DEF BrokerInv, SlotsAreHeld
  <1>6. SlotsAreHeld'
    BY <1>1, <1>2, <1>3, <1>5, BrokerNumbers DEF SlotsAreHeld
  <1>7. callCount' \in 0 .. Cardinality(ToolCalls)
    BY <1>1, <1>3, <1>4, <1>5, BrokerNumbers
  <1>8. BrokerTypeOK'
    BY <1>1, <1>7 DEF BrokerInv, BrokerTypeOK
  <1>9. CallsAreBounded'
    BY <1>1 DEF BrokerInv, CallsAreBounded
  <1> QED
    BY <1>1, <1>6, <1>8, <1>9, ConnectionRests DEF BrokerInv

\* The one step that starts a handler: the session has a slot for it.
LEMMA DispatchKeeps ==
  ASSUME BrokerInv, NEW c \in ToolCalls, Dispatch(c)
  PROVE  BrokerInv'
  <1>1. PICK stage \in {"proxying", "running"} : toolCall' = [toolCall EXCEPT ![c] = stage]
    BY DEF Dispatch, Moves
  <1>2. /\ toolCall[c] = "none" /\ callCount + pendingCalls < MaxCalls
        /\ pendingCalls' = pendingCalls + 1 /\ dispatched' = dispatched \cup {c}
        /\ UNCHANGED <<callCount, totalCost, paid, oversized, connection, connections>>
    BY DEF Dispatch, CallIs, PreExecute, AssertBudgetAllowed
  <1>3. Done' = Done /\ InFlight' = InFlight \cup {c} /\ c \notin InFlight
    BY <1>1, <1>2 DEF Done, InFlight, Running, BrokerInv, BrokerTypeOK
  <1>4. Cardinality(InFlight') = Cardinality(InFlight) + 1
    BY <1>3, BrokerNumbers, ToolSets
  <1>5. Cardinality(InFlight') <= Cardinality(ToolCalls)
    BY <1>3, BrokerNumbers, ToolSets
  <1>6. Cardinality(dispatched') <= Cardinality(dispatched) + 1 /\ Cardinality(dispatched') \in Nat
    <2>1. PICK n : n = Cardinality(dispatched \cup {c})
      OBVIOUS
    <2>2. n = Cardinality(dispatched) + (IF c \in dispatched THEN 0 ELSE 1)
      BY <2>1, BrokerNumbers, ToolSets
    <2> QED
      BY <1>2, <2>1, <2>2, BrokerNumbers
  <1>7. /\ callCount <= Cardinality(Done) /\ pendingCalls <= Cardinality(InFlight)
        /\ Cardinality(dispatched) <= callCount + pendingCalls + Cardinality(oversized)
        /\ oversized \subseteq Done
    BY DEF BrokerInv, SlotsAreHeld
  <1>8. SlotsAreHeld'
    BY <1>2, <1>3, <1>4, <1>6, <1>7, BrokerNumbers DEF SlotsAreHeld
  <1>9. CallsAreBounded'
    BY <1>2, <1>6, <1>7, BrokerNumbers DEF CallsAreBounded
  <1>10. pendingCalls' \in 0 .. Cardinality(ToolCalls)
    BY <1>2, <1>4, <1>5, <1>7, BrokerNumbers
  <1>11. BrokerTypeOK'
    BY <1>1, <1>2, <1>10 DEF BrokerInv, BrokerTypeOK
  <1> QED
    BY <1>2, <1>8, <1>9, <1>11, ConnectionRests DEF BrokerInv

\* Only the connection and the stages of the proxied calls change.
LEMMA ConnectorKeeps ==
  ASSUME BrokerInv, BrokerRests, Done' = Done, InFlight' = InFlight,
         toolCall' \in [ToolCalls -> {"none", "proxying", "connecting", "running", "late", "ended"}],
         connection' \in [client : BOOLEAN, promise : BOOLEAN, closed : BOOLEAN],
         connections' \in 0 .. Cardinality(ToolCalls), ConnectionIsPromised', OneConnection'
  PROVE  BrokerInv'
  <1>1. BrokerTypeOK'
    BY DEF BrokerInv, BrokerTypeOK, BrokerRests
  <1>2. SlotsAreHeld' /\ CallsAreBounded'
    BY DEF BrokerInv, SlotsAreHeld, CallsAreBounded, BrokerRests
  <1> QED
    BY <1>1, <1>2 DEF BrokerInv

LEMMA ConnectionTypes ==
  ASSUME BrokerInv
  PROVE  /\ connection \in [client : BOOLEAN, promise : BOOLEAN, closed : BOOLEAN]
         /\ connections \in 0 .. Cardinality(ToolCalls)
         /\ toolCall \in [ToolCalls -> {"none", "proxying", "connecting", "running", "late", "ended"}]
         /\ ConnectionIsPromised /\ OneConnection
  BY DEF BrokerInv, BrokerTypeOK

LEMMA EnsureConnectedKeeps ==
  ASSUME BrokerInv, NEW c \in ToolCalls, EnsureConnected(c)
  PROVE  BrokerInv'
  <1>1. toolCall[c] = "proxying" /\ BrokerRests
    BY DEF EnsureConnected, CallIs
  <1>2. PICK stage \in {"running", "connecting"} : toolCall' = [toolCall EXCEPT ![c] = stage]
    BY DEF EnsureConnected, Moves
  <1>3. Done' = Done /\ InFlight' = InFlight
    BY <1>1, <1>2, ConnectionTypes DEF Done, InFlight, Running
  <1>4. toolCall' \in [ToolCalls -> {"none", "proxying", "connecting", "running", "late", "ended"}]
    BY <1>2, ConnectionTypes
  <1>5. CASE connection.client
    <2>1. UNCHANGED <<connection, connections>>
      BY <1>5 DEF EnsureConnected
    <2> QED
      BY <1>1, <1>3, <1>4, <2>1, ConnectorKeeps, ConnectionRests, ConnectionTypes
  <1>6. CASE ~connection.client
    <2>1. /\ ~connection.closed /\ connection' = [connection EXCEPT !.promise = TRUE]
          /\ connections' = IF ~connection.promise THEN connections + 1 ELSE connections
      BY <1>6 DEF EnsureConnected, StartsConnecting
    <2>2. connections = IF connection.promise THEN 1 ELSE 0
      BY <2>1, ConnectionTypes DEF ConnectionIsPromised
    <2>3. connections' = 1
      BY <2>1, <2>2, ConnectionTypes
    <2>4. connection'.promise /\ ~connection'.closed
          /\ connection' \in [client : BOOLEAN, promise : BOOLEAN, closed : BOOLEAN]
      BY <2>1, ConnectionTypes
    <2>5. Cardinality(ToolCalls) >= 1
      <3>1. Cardinality({c}) = 1 /\ Cardinality({c}) <= Cardinality(ToolCalls)
        BY FS_Singleton, ToolSets
      <3> QED
        BY <3>1
    <2>6. connections' \in 0 .. Cardinality(ToolCalls)
      BY <2>3, <2>5, BrokerNumbers
    <2>7. ConnectionIsPromised' /\ OneConnection'
      BY <2>3, <2>4 DEF ConnectionIsPromised, OneConnection
    <2> QED
      BY <1>1, <1>3, <1>4, <2>4, <2>6, <2>7, ConnectorKeeps
  <1> QED
    BY <1>5, <1>6

LEMMA ConnectedKeeps == ASSUME BrokerInv, Connected PROVE BrokerInv'
  <1>1. /\ BrokerRests /\ connections > 0 /\ connections' = connections
        /\ connection' = [connection EXCEPT !.client = TRUE]
        /\ toolCall' = [c \in ToolCalls |-> IF c \in Waiters THEN "running" ELSE toolCall[c]]
    BY DEF Connected
  <1>2. \A c \in ToolCalls : c \in Waiters <=> toolCall[c] = "connecting"
    BY DEF Waiters, CallIs
  <1>3. Done' = Done /\ InFlight' = InFlight
        /\ toolCall' \in [ToolCalls -> {"none", "proxying", "connecting", "running", "late", "ended"}]
    BY <1>1, <1>2, ConnectionTypes DEF Done, InFlight, Running
  <1>4. ConnectionIsPromised' /\ OneConnection'
    BY <1>1, ConnectionTypes DEF ConnectionIsPromised, OneConnection
  <1>5. connection' \in [client : BOOLEAN, promise : BOOLEAN, closed : BOOLEAN]
        /\ connections' \in 0 .. Cardinality(ToolCalls)
    BY <1>1, ConnectionTypes
  <1> QED
    BY <1>1, <1>3, <1>4, <1>5, ConnectorKeeps

LEMMA CloseKeeps == ASSUME BrokerInv, Close PROVE BrokerInv'
  <1>1. /\ BrokerRests /\ toolCall' = toolCall /\ ~connection.closed
        /\ connection' = [client |-> FALSE, promise |-> FALSE, closed |-> TRUE]
        /\ connections' = IF connection.client THEN connections - 1 ELSE connections
    BY DEF Close
  <1>2. Done' = Done /\ InFlight' = InFlight
    BY <1>1 DEF Done, InFlight, Running
  <1>3. /\ connections \in 0 .. Cardinality(ToolCalls) /\ connections <= 1
        /\ connection.client => connections = 1
    BY <1>1, ConnectionTypes DEF ConnectionIsPromised, OneConnection
  <1>4. connections' \in 0 .. Cardinality(ToolCalls) /\ connections' <= 1
    BY <1>1, <1>3, BrokerNumbers
  <1>5. ConnectionIsPromised' /\ OneConnection'
    BY <1>1, <1>4 DEF ConnectionIsPromised, OneConnection
  <1> QED
    BY <1>1, <1>2, <1>4, <1>5, ConnectorKeeps, ConnectionTypes

\* The calls that waited end together, each with its slot.
LEMMA ConnectFailsKeeps == ASSUME BrokerInv, ConnectFails PROVE BrokerInv'
  <1>1. /\ connections > 0 /\ ~connection.client /\ connections' = connections - 1
        /\ connection' = [connection EXCEPT !.promise = FALSE]
        /\ toolCall' = [c \in ToolCalls |-> IF c \in Waiters THEN "ended" ELSE toolCall[c]]
        /\ callCount' = callCount + Cardinality(Waiters)
        /\ pendingCalls' = Released(Cardinality(Waiters))
        /\ UNCHANGED <<totalCost, dispatched, paid, oversized>>
    BY DEF ConnectFails
  <1>2. PICK w : w = Waiters
    OBVIOUS
  <1>3. w \subseteq ToolCalls /\ w \subseteq InFlight /\ w \cap Done = {}
    BY <1>2 DEF Waiters, CallIs, Done, InFlight, Running
  <1>4. Done' = Done \cup w /\ InFlight' = InFlight \ w
    BY <1>1, <1>2, <1>3 DEF Done, InFlight, Running
  <1>5. Cardinality(w) \in Nat /\ IsFiniteSet(w)
    BY <1>3, ToolSets
  <1>6. Cardinality(Done') = Cardinality(Done) + Cardinality(w)
        /\ Cardinality(Done') <= Cardinality(ToolCalls)
    <2>1. IsFiniteSet(Done) /\ IsFiniteSet(w)
      BY <1>5, BrokerNumbers, ToolSets
    <2>2. Cardinality(Done \cup w) = Cardinality(Done) + Cardinality(w) - Cardinality(Done \cap w)
      BY <2>1, FS_Union
    <2>3. Cardinality(Done \cap w) = 0
      BY <1>3, FS_EmptySet
    <2>4. Done \cup w \subseteq ToolCalls
      BY <1>3, BrokerNumbers
    <2>5. Cardinality(Done \cup w) <= Cardinality(ToolCalls)
      BY <2>4, ToolSets
    <2> QED
      BY <1>4, <1>5, <2>2, <2>3, <2>5, BrokerNumbers
  <1>7. Cardinality(InFlight') = Cardinality(InFlight) - Cardinality(w)
    <2>1. IsFiniteSet(InFlight)
      BY BrokerNumbers, ToolSets
    <2>2. Cardinality(InFlight \ w) = Cardinality(InFlight) - Cardinality(InFlight \cap w)
      BY <2>1, FS_Difference
    <2>3. InFlight \cap w = w
      BY <1>3
    <2> QED
      BY <1>4, <2>2, <2>3
  <1>8. pendingCalls' = IF pendingCalls > Cardinality(w) THEN pendingCalls - Cardinality(w) ELSE 0
    BY <1>1, <1>2 DEF Released
  <1>9. /\ callCount <= Cardinality(Done) /\ pendingCalls <= Cardinality(InFlight)
        /\ Cardinality(dispatched) <= callCount + pendingCalls + Cardinality(oversized)
        /\ oversized \subseteq Done
    BY DEF BrokerInv, SlotsAreHeld
  <1>10. callCount' = callCount + Cardinality(w)
    BY <1>1, <1>2
  <1>11. SlotsAreHeld'
    <2>1. (callCount <= Cardinality(Done))'
      BY <1>5, <1>6, <1>9, <1>10, BrokerNumbers
    <2>2. Cardinality(InFlight') \in Nat
      BY <1>4, BrokerNumbers, ToolSets
    <2>3. (pendingCalls <= Cardinality(InFlight))'
      BY <1>5, <1>7, <1>8, <1>9, <2>2, BrokerNumbers
    <2>4. (oversized \subseteq Done)'
      BY <1>1, <1>4, <1>9
    <2>5. (Cardinality(dispatched) <= callCount + pendingCalls + Cardinality(oversized))'
      BY <1>1, <1>5, <1>8, <1>9, <1>10, BrokerNumbers
    <2> QED
      BY <2>1, <2>3, <2>4, <2>5 DEF SlotsAreHeld
  <1>12. callCount' \in 0 .. Cardinality(ToolCalls) /\ pendingCalls' \in 0 .. Cardinality(ToolCalls)
    <2>1. pendingCalls \in 0 .. Cardinality(ToolCalls)
      BY DEF BrokerInv, BrokerTypeOK
    <2> QED
      BY <1>5, <1>6, <1>8, <1>9, <1>10, <2>1, BrokerNumbers
  <1>13. toolCall' \in [ToolCalls -> {"none", "proxying", "connecting", "running", "late", "ended"}]
    BY <1>1, ConnectionTypes
  <1>14. connection' \in [client : BOOLEAN, promise : BOOLEAN, closed : BOOLEAN]
         /\ connections' \in 0 .. Cardinality(ToolCalls)
    <2>1. connection' \in [client : BOOLEAN, promise : BOOLEAN, closed : BOOLEAN]
      BY <1>1, ConnectionTypes
    <2>2. connections \in 0 .. Cardinality(ToolCalls)
      BY ConnectionTypes
    <2> QED
      BY <1>1, <2>1, <2>2, BrokerNumbers
  <1>15. BrokerTypeOK'
    BY <1>1, <1>12, <1>13, <1>14 DEF BrokerInv, BrokerTypeOK
  <1>16. CallsAreBounded'
    BY <1>1 DEF BrokerInv, CallsAreBounded
  <1>17. ConnectionIsPromised' /\ OneConnection'
    <2>1. /\ ~connection'.promise /\ ~connection'.client /\ connection'.closed = connection.closed
          /\ connections \in Nat /\ connections = 1
      BY <1>1, ConnectionTypes, BrokerNumbers DEF OneConnection
    <2> QED
      BY <1>1, <2>1 DEF ConnectionIsPromised, OneConnection
  <1> QED
    BY <1>11, <1>15, <1>16, <1>17 DEF BrokerInv

LEMMA NextBrokerInv == BrokerInv /\ [BrokerNext]_brokerVars => BrokerInv'
  <1> SUFFICES ASSUME BrokerInv, [BrokerNext]_brokerVars PROVE BrokerInv'
    OBVIOUS
  <1>1. CASE UNCHANGED brokerVars
    <2>1. Done' = Done /\ InFlight' = InFlight
      BY <1>1 DEF brokerVars, Done, InFlight, Running
    <2> QED
      BY <1>1, <2>1 DEF brokerVars, BrokerInv, BrokerTypeOK, SlotsAreHeld, CallsAreBounded,
         ConnectionIsPromised, OneConnection
  <1>2. CASE BrokerNext
    BY <1>2, RefuseKeeps, DispatchKeeps, EndingsKeep, OutputTooLargeKeeps, LateHandlerEndsKeeps,
       EnsureConnectedKeeps, ConnectedKeeps, ConnectFailsKeeps, CloseKeeps DEF BrokerNext
  <1> QED
    BY <1>1, <1>2

LEMMA BrokerInvGives == BrokerInv => BrokerTypeOK /\ CallsAreBounded /\ OneConnection
  BY DEF BrokerInv
-----------------------------------------------------------------------------
(* A task in hand is reserved, by one delivery; a deliverable to be        *)
(* reported as submitted is on the chain, and stays there.                 *)

InHand(d) == handling[d].stage # "idle"

InHandIsReserved ==
    \A d \in Deliveries : InHand(d) =>
        /\ handling[d].message \in Messages
        /\ taskEntry[TaskAt(d)] # "none"
        /\ \A e \in Deliveries : e # d /\ InHand(e) => TaskAt(e) # TaskAt(d)

UnreservedIsUnrun ==
    /\ \A t \in Tasks : taskEntry[t] = "none" => agentRuns[t] = 0
    /\ \A d \in Deliveries : At(d, "starting") => agentRuns[TaskAt(d)] = 0

SubmitsAnOutput ==
    \A d \in Deliveries :
        \/ handling[d].stage \in {"preparing", "submitting", "receipting", "completing"}
        \/ At(d, "storing") /\ RouteAt(d) # "runtime/run"
        => handling[d].output \in Outputs

ConfirmedIsOnChain ==
    \A j \in TaskJobs : \A o \in Outputs : submitKey[j][o] = "confirmed" => deliverable[j] = o

ReportedIsOnChain ==
    \A d \in Deliveries : handling[d].stage \in {"receipting", "completing"} =>
        deliverable[JobAt(d)] = handling[d].output

CompletedHasOutput ==
    \A j \in TaskJobs : hostedRun[j].status = "completed" =>
        deliverable[j] = hostedRun[j].output /\ hostedRun[j].output \in Outputs

RequestInv ==
    /\ RequestTypeOK
    /\ InHandIsReserved /\ UnreservedIsUnrun /\ TaskRunsOnce
    /\ SubmitsAnOutput /\ ConfirmedIsOnChain /\ ReportedIsOnChain /\ CompletedHasOutput

TaskParts == InHandIsReserved /\ UnreservedIsUnrun /\ TaskRunsOnce
SubmitParts == SubmitsAnOutput /\ ConfirmedIsOnChain /\ ReportedIsOnChain /\ CompletedHasOutput

LEMMA InitRequestInv == RequestInit => RequestInv
  <1> SUFFICES ASSUME RequestInit PROVE RequestInv
    OBVIOUS
  <1>1. RequestTypeOK
    BY RequestAssumption DEF RequestInit, RequestTypeOK, NoHandling, Stages
  <1> QED
    BY <1>1, RequestAssumption
    DEF RequestInit, RequestInv, InHandIsReserved, UnreservedIsUnrun, TaskRunsOnce, SubmitsAnOutput,
        ConfirmedIsOnChain, ReportedIsOnChain, CompletedHasOutput, InHand, At, NoHandling

LEMMA RequestTypes ==
  ASSUME RequestInv
  PROVE  /\ \A d \in Deliveries : handling[d] \in [message : Messages \cup {NoMessage}, stage : Stages,
                                                  hosted : BOOLEAN, output : Outputs \cup {NoOutput}]
         /\ \A d \in Deliveries : InHand(d) => TaskAt(d) \in Tasks /\ JobAt(d) \in TaskJobs
         /\ \A d \in Deliveries : \A s \in Stages : At(d, s) /\ s # "idle" => InHand(d)
         /\ \A m \in Messages : TaskOf[m] \in Tasks
  BY RequestAssumption DEF RequestInv, RequestTypeOK, InHandIsReserved, InHand, TaskAt, JobAt, At

\* Nothing is received, run or submitted.
LEMMA SignTickKeep ==
  ASSUME RequestInv, Tick \/ \E m \in Messages : Sign(m)
  PROVE  RequestInv'
  <1>1. UNCHANGED <<nonceUntil, taskEntry, handling, agentRuns, submitKey, deliverable, hostedRun,
                    runnerCrashes>>
    BY DEF Tick, Sign
  <1>2. clock' \in 1 .. LastTick
    BY RequestAssumption DEF Tick, Sign, RequestInv, RequestTypeOK
  <1>3. stamp' \in [Messages -> 0 .. LastTick + Ahead]
    <2>1. CASE Tick
      BY <2>1 DEF Tick, RequestInv, RequestTypeOK
    <2>2. ASSUME NEW m \in Messages, Sign(m) PROVE stamp' \in [Messages -> 0 .. LastTick + Ahead]
      <3>1. clock + Ahead \in 0 .. LastTick + Ahead
        BY RequestAssumption DEF RequestInv, RequestTypeOK
      <3> QED
        BY <2>2, <3>1 DEF Sign, RequestInv, RequestTypeOK
    <2> QED
      BY <2>1, <2>2
  <1>4. RequestTypeOK'
    BY <1>1, <1>2, <1>3 DEF RequestInv, RequestTypeOK
  <1> QED
    BY <1>1, <1>4 DEF RequestInv, InHandIsReserved, UnreservedIsUnrun, TaskRunsOnce, SubmitsAnOutput,
       ConfirmedIsOnChain, ReportedIsOnChain, CompletedHasOutput, InHand, At, TaskAt, JobAt, RouteAt

LEMMA ReceiveKeeps ==
  ASSUME RequestInv, NEW d \in Deliveries, NEW m \in Messages, Receive(d, m)
  PROVE  RequestInv'
  <1>1. /\ At(d, "idle") /\ nonceUntil' = [nonceUntil EXCEPT ![m] = clock + NonceTtl]
        /\ UNCHANGED <<clock, stamp, submitKey, deliverable, hostedRun, runnerCrashes>>
    BY DEF Receive
  <1>2. nonceUntil' \in [Messages -> 0 .. LastTick + NonceTtl]
    <2>1. clock + NonceTtl \in 0 .. LastTick + NonceTtl
      BY RequestAssumption DEF RequestInv, RequestTypeOK
    <2> QED
      BY <1>1, <2>1 DEF RequestInv, RequestTypeOK
  <1>3. CASE ~Reservable(TaskOf[m])
    <2>1. UNCHANGED <<taskEntry, handling, agentRuns>>
      BY <1>3 DEF Receive
    <2>2. RequestTypeOK'
      BY <1>1, <1>2, <2>1 DEF RequestInv, RequestTypeOK
    <2> QED
      BY <1>1, <2>1, <2>2 DEF RequestInv, InHandIsReserved, UnreservedIsUnrun, TaskRunsOnce,
         SubmitsAnOutput, ConfirmedIsOnChain, ReportedIsOnChain, CompletedHasOutput, InHand, At,
         TaskAt, JobAt, RouteAt
  <1>4. CASE Reservable(TaskOf[m])
    <2>1. PICK t : t = TaskOf[m]
      OBVIOUS
    <2>2. t \in Tasks /\ taskEntry[t] = "none" /\ taskEntry' = [taskEntry EXCEPT ![t] = "pending"]
      BY <1>4, <2>1, RequestTypes DEF Receive, Reservable
    <2>3. PICK h : h = [handling[d] EXCEPT !.message = m,
                          !.stage = IF RouteOf[m] = "runtime/run" THEN "running" ELSE "starting"]
      OBVIOUS
    <2>4. handling' = [handling EXCEPT ![d] = h]
      BY <1>4, <2>3 DEF Receive
    <2>5. h.message = m /\ h.stage \in {"running", "starting"}
          /\ h \in [message : Messages \cup {NoMessage}, stage : Stages, hosted : BOOLEAN,
                    output : Outputs \cup {NoOutput}]
      BY <2>3, RequestTypes DEF Stages
    <2>6. /\ agentRuns[t] = 0
          /\ \/ h.stage = "running" /\ agentRuns' = [agentRuns EXCEPT ![t] = 1]
             \/ h.stage = "starting" /\ agentRuns' = agentRuns
      <3>1. agentRuns[t] = 0
        BY <2>2 DEF RequestInv, UnreservedIsUnrun
      <3>2. CASE RouteOf[m] = "runtime/run"
        BY <1>4, <2>1, <2>3, <2>5, <3>1, <3>2, RequestTypes DEF Receive, RunAgent
      <3>3. CASE RouteOf[m] # "runtime/run"
        BY <1>4, <2>1, <2>3, <2>5, <3>1, <3>3, RequestTypes DEF Receive
      <3> QED
        BY <3>2, <3>3, <3>1
    <2>7. \A e \in Deliveries : InHand(e) => TaskAt(e) # t
      BY <2>2 DEF RequestInv, InHandIsReserved
    <2>8. handling'[d] = h /\ \A e \in Deliveries : e # d => handling'[e] = handling[e]
      BY <2>4 DEF RequestInv, RequestTypeOK
    <2>9. \A e \in Deliveries : e # d => TaskAt(e)' = TaskAt(e) /\ JobAt(e)' = JobAt(e)
                                         /\ RouteAt(e)' = RouteAt(e) /\ InHand(e)' = InHand(e)
      BY <2>8 DEF TaskAt, JobAt, RouteAt, InHand
    <2>10. TaskAt(d)' = t /\ ~InHand(d)
      BY <1>1, <2>1, <2>5, <2>8 DEF TaskAt, InHand, At
    <2>11. RequestTypeOK'
      <3>1. handling' \in [Deliveries -> [message : Messages \cup {NoMessage}, stage : Stages,
                                    hosted : BOOLEAN, output : Outputs \cup {NoOutput}]]
        BY <2>4, <2>5 DEF RequestInv, RequestTypeOK
      <3>2. agentRuns' \in [Tasks -> 0 .. 2] /\ taskEntry' \in [Tasks -> {"none", "pending", "completed", "failed"}]
        BY <2>2, <2>6 DEF RequestInv, RequestTypeOK
      <3> QED
        BY <1>1, <1>2, <3>1, <3>2 DEF RequestInv, RequestTypeOK
    <2>12. InHandIsReserved'
      <3>1. \A u \in Tasks : taskEntry'[u] # "none" <=> taskEntry[u] # "none" \/ u = t
        BY <2>2 DEF RequestInv, RequestTypeOK
      <3>2. \A e \in Deliveries : InHand(e) => /\ handling[e].message \in Messages
                                                /\ TaskAt(e) \in Tasks /\ taskEntry[TaskAt(e)] # "none"
        BY RequestAssumption DEF RequestInv, InHandIsReserved, TaskAt
      <3>3. ASSUME NEW x \in Deliveries, InHand(x)', x = d
            PROVE  /\ handling'[x].message \in Messages /\ taskEntry'[TaskAt(x)'] # "none"
                   /\ \A e \in Deliveries : e # x /\ InHand(e)' => TaskAt(e)' # TaskAt(x)'
        BY <2>2, <2>5, <2>7, <2>8, <2>9, <2>10, <3>1, <3>3
      <3>4. ASSUME NEW x \in Deliveries, InHand(x)', x # d
            PROVE  /\ handling'[x].message \in Messages /\ taskEntry'[TaskAt(x)'] # "none"
                   /\ \A e \in Deliveries : e # x /\ InHand(e)' => TaskAt(e)' # TaskAt(x)'
        <4>1. InHand(x) /\ TaskAt(x)' = TaskAt(x) /\ handling'[x] = handling[x]
          BY <2>8, <2>9, <3>4
        <4>2. TaskAt(d)' # TaskAt(x)'
          BY <2>7, <2>10, <4>1
        <4>3. \A e \in Deliveries : e # x /\ InHand(e) => TaskAt(e) # TaskAt(x)
          BY <4>1 DEF RequestInv, InHandIsReserved
        <4> QED
          BY <2>9, <3>1, <3>2, <4>1, <4>2, <4>3
      <3> QED
        BY <3>3, <3>4 DEF InHandIsReserved
    <2>13. UnreservedIsUnrun' /\ TaskRunsOnce'
      <3>1. TaskRunsOnce'
        BY <2>2, <2>6 DEF RequestInv, RequestTypeOK, TaskRunsOnce
      <3>2. \A u \in Tasks : taskEntry'[u] = "none" => agentRuns'[u] = 0
        BY <2>2, <2>6 DEF RequestInv, RequestTypeOK, UnreservedIsUnrun
      <3>3. ASSUME NEW e \in Deliveries, handling'[e].stage = "starting" PROVE agentRuns'[TaskAt(e)'] = 0
        <4>1. CASE e = d
          BY <2>6, <2>8, <2>10, <3>3, <4>1
        <4>2. CASE e # d
          <5>1. At(e, "starting") /\ InHand(e) /\ TaskAt(e)' = TaskAt(e)
            BY <2>8, <2>9, <3>3, <4>2 DEF At, InHand
          <5>2. TaskAt(e) # t /\ agentRuns[TaskAt(e)] = 0 /\ TaskAt(e) \in Tasks
            BY <2>7, <5>1, RequestTypes DEF RequestInv, UnreservedIsUnrun
          <5> QED
            BY <2>6, <5>1, <5>2 DEF RequestInv, RequestTypeOK
        <4> QED
          BY <4>1, <4>2
      <3> QED
        BY <3>1, <3>2, <3>3 DEF UnreservedIsUnrun, At
    <2>14. SubmitParts'
      BY <1>1, <2>5, <2>8, <2>9 DEF SubmitParts, RequestInv, SubmitsAnOutput, ConfirmedIsOnChain,
         ReportedIsOnChain, CompletedHasOutput, At
    <2> QED
      BY <2>11, <2>12, <2>13, <2>14 DEF RequestInv, SubmitParts
  <1> QED
    BY <1>3, <1>4

Handlings == [message : Messages \cup {NoMessage}, stage : Stages, hosted : BOOLEAN,
              output : Outputs \cup {NoOutput}]

\* A delivery in hand comes to another stage, or is answered; the only run of
\* its task is begun when it starts.
LEMMA TaskPartsKept ==
  ASSUME RequestInv, NEW d \in Deliveries, InHand(d), NEW h, handling' = [handling EXCEPT ![d] = h],
         h.stage = "idle" \/ (h.message = handling[d].message /\ h.stage # "starting"),
         \/ taskEntry' = taskEntry
         \/ \E s \in {"completed", "failed"} : taskEntry' = [taskEntry EXCEPT ![TaskAt(d)] = s],
         \/ agentRuns' = agentRuns
         \/ At(d, "starting") /\ agentRuns' = [agentRuns EXCEPT ![TaskAt(d)] = 1]
  PROVE  InHandIsReserved' /\ UnreservedIsUnrun' /\ TaskRunsOnce'
  <1>1. handling'[d] = h /\ \A e \in Deliveries : e # d => handling'[e] = handling[e]
    BY DEF RequestInv, RequestTypeOK
  <1>2. \A e \in Deliveries : e # d => TaskAt(e)' = TaskAt(e) /\ InHand(e)' = InHand(e)
    BY <1>1 DEF TaskAt, InHand
  <1>3. InHand(d)' => TaskAt(d)' = TaskAt(d) /\ h.message = handling[d].message
    BY <1>1 DEF TaskAt, InHand
  <1>4. \A e \in Deliveries : InHand(e) => TaskAt(e) \in Tasks
    BY RequestTypes
  <1>5. \A t \in Tasks : taskEntry[t] # "none" => taskEntry'[t] # "none"
    BY <1>4 DEF RequestInv, RequestTypeOK
  <1>6. \A t \in Tasks : taskEntry'[t] = "none" => taskEntry[t] = "none" /\ t # TaskAt(d)
    <2>1. taskEntry[TaskAt(d)] # "none" /\ TaskAt(d) \in Tasks
      BY <1>4 DEF RequestInv, InHandIsReserved
    <2> QED
      BY <1>5, <2>1
  <1>7. InHandIsReserved'
    <2>1. ASSUME NEW e \in Deliveries, InHand(e)'
          PROVE  InHand(e) /\ handling'[e].message = handling[e].message /\ TaskAt(e)' = TaskAt(e)
      BY <1>1, <1>2, <1>3, <2>1
    <2> QED
      BY <1>4, <1>5, <2>1 DEF RequestInv, InHandIsReserved
  <1>8. TaskRunsOnce'
    BY DEF RequestInv, RequestTypeOK, TaskRunsOnce
  <1>9. UnreservedIsUnrun'
    <2>1. \A t \in Tasks : t # TaskAt(d) => agentRuns'[t] = agentRuns[t]
      BY DEF RequestInv, RequestTypeOK
    <2>2. \A t \in Tasks : taskEntry'[t] = "none" => agentRuns'[t] = 0
      BY <1>6, <2>1 DEF RequestInv, UnreservedIsUnrun
    <2>3. ASSUME NEW e \in Deliveries, handling'[e].stage = "starting" PROVE agentRuns'[TaskAt(e)'] = 0
      <3>1. e # d
        BY <1>1, <2>3
      <3>2. At(e, "starting") /\ InHand(e) /\ TaskAt(e)' = TaskAt(e)
        BY <1>1, <1>2, <2>3, <3>1 DEF At, InHand
      <3>3. TaskAt(e) # TaskAt(d) /\ agentRuns[TaskAt(e)] = 0
        BY <3>1, <3>2 DEF RequestInv, InHandIsReserved, UnreservedIsUnrun
      <3> QED
        BY <1>4, <2>1, <3>2, <3>3
    <2> QED
      BY <2>2, <2>3 DEF UnreservedIsUnrun, At
  <1> QED
    BY <1>7, <1>8, <1>9

\* What is on the chain stays there; what is newly confirmed, reported or
\* completed is on it.
LEMMA SubmitPartsKept ==
  ASSUME RequestInv, NEW d \in Deliveries, InHand(d), NEW h, handling' = [handling EXCEPT ![d] = h],
         h.stage = "idle" \/ h.message = handling[d].message,
         \/ h.stage \in {"preparing", "submitting", "receipting", "completing"}
         \/ h.stage = "storing" /\ RouteAt(d) # "runtime/run"
         => h.output \in Outputs,
         h.stage \in {"receipting", "completing"} => deliverable'[JobAt(d)] = h.output,
         \A j \in TaskJobs : deliverable[j] # NoOutput => deliverable'[j] = deliverable[j],
         \A j \in TaskJobs : \A o \in Outputs : submitKey'[j][o] = "confirmed" =>
             submitKey[j][o] = "confirmed" \/ deliverable'[j] = o,
         \A j \in TaskJobs : hostedRun'[j].status = "completed" =>
             \/ hostedRun[j].status = "completed" /\ hostedRun'[j].output = hostedRun[j].output
             \/ deliverable'[j] = hostedRun'[j].output /\ hostedRun'[j].output \in Outputs
  PROVE  SubmitsAnOutput' /\ ConfirmedIsOnChain' /\ ReportedIsOnChain' /\ CompletedHasOutput'
  <1>1. handling'[d] = h /\ \A e \in Deliveries : e # d => handling'[e] = handling[e]
    BY DEF RequestInv, RequestTypeOK
  <1>2. \A e \in Deliveries : e # d => JobAt(e)' = JobAt(e) /\ RouteAt(e)' = RouteAt(e)
    BY <1>1 DEF TaskAt, JobAt, RouteAt
  <1>3. h.stage # "idle" => JobAt(d)' = JobAt(d) /\ RouteAt(d)' = RouteAt(d)
    BY <1>1 DEF TaskAt, JobAt, RouteAt
  <1>4. \A o \in Outputs : o # NoOutput
    BY RequestAssumption
  <1>5. SubmitsAnOutput'
    BY <1>1, <1>2, <1>3 DEF RequestInv, SubmitsAnOutput, At
  <1>6. ConfirmedIsOnChain'
    BY <1>4 DEF RequestInv, ConfirmedIsOnChain
  <1>7. ReportedIsOnChain'
    <2> SUFFICES ASSUME NEW e \in Deliveries, handling'[e].stage \in {"receipting", "completing"}
                 PROVE deliverable'[JobAt(e)'] = handling'[e].output
      BY DEF ReportedIsOnChain
    <2>1. CASE e = d
      BY <1>1, <1>3, <2>1
    <2>2. CASE e # d
      <3>1. handling[e].stage \in {"receipting", "completing"} /\ handling'[e] = handling[e]
        BY <1>1, <2>2
      <3>2. deliverable[JobAt(e)] = handling[e].output /\ handling[e].output \in Outputs
        BY <3>1 DEF RequestInv, ReportedIsOnChain, SubmitsAnOutput
      <3>3. JobAt(e) \in TaskJobs
        BY <3>1, RequestTypes DEF InHand
      <3> QED
        BY <1>2, <1>4, <2>2, <3>1, <3>2, <3>3
    <2> QED
      BY <2>1, <2>2
  <1>8. CompletedHasOutput'
    BY <1>4 DEF RequestInv, CompletedHasOutput
  <1> QED
    BY <1>5, <1>6, <1>7, <1>8

LEMMA HandlingTypes ==
  ASSUME RequestInv, NEW d \in Deliveries
  PROVE  /\ handling[d] \in Handlings
         /\ handling[d] = [message |-> handling[d].message, stage |-> handling[d].stage,
                           hosted |-> handling[d].hosted, output |-> handling[d].output]
         /\ NoHandling \in Handlings
         /\ handling = [e \in Deliveries |-> handling[e]]
  <1>1. handling[d] \in Handlings
    BY DEF RequestInv, RequestTypeOK, Handlings
  <1>2. NoHandling \in Handlings
    BY DEF NoHandling, Handlings, Stages
  <1> QED
    BY <1>1, <1>2 DEF RequestInv, RequestTypeOK, Handlings

LEMMA GoesToIs ==
  ASSUME RequestInv, NEW d \in Deliveries, NEW stage \in Stages, GoesTo(d, stage)
  PROVE  \E h \in Handlings : /\ handling' = [handling EXCEPT ![d] = h]
                              /\ h = [handling[d] EXCEPT !.stage = stage]
  <1>1. PICK h : h = [handling[d] EXCEPT !.stage = stage]
    OBVIOUS
  <1>2. h \in Handlings
    BY <1>1, HandlingTypes DEF Handlings
  <1>3. [handling EXCEPT ![d].stage = stage] = [handling EXCEPT ![d] = h]
    BY <1>1, HandlingTypes
  <1> QED
    BY <1>1, <1>2, <1>3 DEF GoesTo

SubmitKeys == [TaskJobs -> [Outputs -> {"none", "executing", "confirmed", "failed", "unknown"}]]
HostedRuns == [TaskJobs -> [status : {"none", "active", "completed"}, output : Outputs \cup {NoOutput}]]

LEMMA HandlerKeeps ==
  ASSUME RequestInv, NEW d \in Deliveries, InHand(d), NEW h \in Handlings,
         handling' = [handling EXCEPT ![d] = h],
         h.stage = "idle" \/ (h.message = handling[d].message /\ h.stage # "starting"),
         \/ taskEntry' = taskEntry
         \/ \E s \in {"completed", "failed"} : taskEntry' = [taskEntry EXCEPT ![TaskAt(d)] = s],
         \/ agentRuns' = agentRuns
         \/ At(d, "starting") /\ agentRuns' = [agentRuns EXCEPT ![TaskAt(d)] = 1],
         \/ h.stage \in {"preparing", "submitting", "receipting", "completing"}
         \/ h.stage = "storing" /\ RouteAt(d) # "runtime/run"
         => h.output \in Outputs,
         h.stage \in {"receipting", "completing"} => deliverable'[JobAt(d)] = h.output,
         \A j \in TaskJobs : deliverable[j] # NoOutput => deliverable'[j] = deliverable[j],
         \A j \in TaskJobs : \A o \in Outputs : submitKey'[j][o] = "confirmed" =>
             submitKey[j][o] = "confirmed" \/ deliverable'[j] = o,
         \A j \in TaskJobs : hostedRun'[j].status = "completed" =>
             \/ hostedRun[j].status = "completed" /\ hostedRun'[j].output = hostedRun[j].output
             \/ deliverable'[j] = hostedRun'[j].output /\ hostedRun'[j].output \in Outputs,
         submitKey' \in SubmitKeys, deliverable' \in [TaskJobs -> Outputs \cup {NoOutput}],
         hostedRun' \in HostedRuns, UNCHANGED <<clock, stamp, nonceUntil, runnerCrashes>>
  PROVE  RequestInv'
  <1>1. InHandIsReserved' /\ UnreservedIsUnrun' /\ TaskRunsOnce'
    BY TaskPartsKept
  <1>2. SubmitsAnOutput' /\ ConfirmedIsOnChain' /\ ReportedIsOnChain' /\ CompletedHasOutput'
    BY SubmitPartsKept
  <1>3. handling' \in [Deliveries -> Handlings]
    BY HandlingTypes DEF RequestInv, RequestTypeOK, Handlings
  <1>4. taskEntry' \in [Tasks -> {"none", "pending", "completed", "failed"}]
    BY DEF RequestInv, RequestTypeOK
  <1>5. agentRuns' \in [Tasks -> 0 .. 2]
    BY DEF RequestInv, RequestTypeOK
  <1>6. RequestTypeOK'
    BY <1>3, <1>4, <1>5 DEF RequestInv, RequestTypeOK, Handlings, SubmitKeys, HostedRuns
  <1> QED
    BY <1>1, <1>2, <1>6 DEF RequestInv

LEMMA StoreTypes ==
  ASSUME RequestInv
  PROVE  /\ submitKey \in SubmitKeys /\ deliverable \in [TaskJobs -> Outputs \cup {NoOutput}]
         /\ hostedRun \in HostedRuns
         /\ \A j \in TaskJobs : hostedRun[j].status = "completed" => deliverable[j] = hostedRun[j].output
  BY DEF RequestInv, RequestTypeOK, SubmitKeys, HostedRuns, CompletedHasOutput

\* Neither the gateway, the chain nor the Console is reached.
LEMMA QuietHandler ==
  ASSUME RequestInv, NEW d \in Deliveries, InHand(d), NEW h \in Handlings,
         handling' = [handling EXCEPT ![d] = h],
         h.stage = "idle" \/ (h.message = handling[d].message /\ h.stage # "starting"),
         \/ taskEntry' = taskEntry
         \/ \E s \in {"completed", "failed"} : taskEntry' = [taskEntry EXCEPT ![TaskAt(d)] = s],
         \/ h.stage \in {"preparing", "submitting", "receipting", "completing"}
         \/ h.stage = "storing" /\ RouteAt(d) # "runtime/run"
         => h.output \in Outputs,
         h.stage \in {"receipting", "completing"} => deliverable[JobAt(d)] = h.output,
         UNCHANGED <<clock, stamp, nonceUntil, agentRuns, submitKey, deliverable, hostedRun, runnerCrashes>>
  PROVE  RequestInv'
  BY HandlerKeeps, StoreTypes

LEMMA AnswersIs ==
  ASSUME RequestInv, NEW d \in Deliveries, Answers(d)
  PROVE  \E h \in Handlings : handling' = [handling EXCEPT ![d] = h] /\ h.stage = "idle"
  BY HandlingTypes DEF Answers, NoHandling

LEMMA StartJobRunKeeps ==
  ASSUME RequestInv, NEW d \in Deliveries, StartJobRun(d)
  PROVE  RequestInv'
  <1>1. At(d, "starting") /\ InHand(d) /\ TaskAt(d) \in Tasks /\ JobAt(d) \in TaskJobs
    <2>1. At(d, "starting") /\ InHand(d)
      BY DEF StartJobRun, At, InHand
    <2> QED
      BY <2>1, RequestTypes
  <1>2. PICK known \in BOOLEAN : handling' = [handling EXCEPT ![d].stage = "running", ![d].hosted = known]
    BY DEF StartJobRun
  <1>3. PICK h : h = [message |-> handling[d].message, stage |-> "running", hosted |-> known,
                      output |-> handling[d].output]
    OBVIOUS
  <1>4. h \in Handlings
    BY <1>3, HandlingTypes DEF Handlings, Stages
  <1>5. handling' = [handling EXCEPT ![d] = h]
    <2>1. /\ handling = [e \in Deliveries |-> handling[e]]
          /\ handling[d] = [message |-> handling[d].message, stage |-> handling[d].stage,
                            hosted |-> handling[d].hosted, output |-> handling[d].output]
      BY HandlingTypes
    <2>2. handling'[d] = h
      BY <1>2, <1>3, <2>1
    <2> QED
      BY <1>2, <2>1, <2>2
  <1>6. agentRuns' = [agentRuns EXCEPT ![TaskAt(d)] = 1]
    <2>1. agentRuns[TaskAt(d)] = 0
      BY <1>1 DEF RequestInv, UnreservedIsUnrun
    <2> QED
      BY <1>1, <2>1 DEF StartJobRun, RunAgent
  <1>7. /\ hostedRun' \in HostedRuns
        /\ \A j \in TaskJobs : hostedRun'[j].status = "completed" =>
             hostedRun[j].status = "completed" /\ hostedRun'[j].output = hostedRun[j].output
    <2>1. CASE hostedRun' = [hostedRun EXCEPT ![JobAt(d)].status = "active"]
      BY <1>1, <2>1, StoreTypes DEF HostedRuns
    <2>2. CASE UNCHANGED hostedRun
      BY <2>2, StoreTypes
    <2> QED
      BY <2>1, <2>2 DEF StartJobRun
  <1>8. UNCHANGED <<clock, stamp, nonceUntil, taskEntry, submitKey, deliverable, runnerCrashes>>
    BY DEF StartJobRun
  <1> QED
    BY <1>1, <1>3, <1>4, <1>5, <1>6, <1>7, <1>8, HandlerKeeps, StoreTypes

LEMMA AgentAnswersKeeps ==
  ASSUME RequestInv, NEW d \in Deliveries, AgentAnswers(d)
  PROVE  RequestInv'
  <1>1. InHand(d) /\ UNCHANGED <<clock, stamp, nonceUntil, agentRuns, submitKey, deliverable, hostedRun,
                                 runnerCrashes>>
    BY DEF AgentAnswers, At, InHand
  <1>2. CASE RouteAt(d) = "runtime/run"
    <2>1. PICK h \in Handlings : /\ handling' = [handling EXCEPT ![d] = h]
                                 /\ h = [handling[d] EXCEPT !.stage = "storing"]
      BY <1>2, GoesToIs DEF AgentAnswers, Stages
    <2>2. taskEntry' = [taskEntry EXCEPT ![TaskAt(d)] = "completed"]
      BY <1>2 DEF AgentAnswers, MarkTask
    <2>3. h.stage = "storing" /\ h.message = handling[d].message
      BY <2>1, HandlingTypes DEF Handlings
    <2> QED
      BY <1>1, <1>2, <2>1, <2>2, <2>3, QuietHandler
  <1>3. CASE RouteAt(d) # "runtime/run"
    <2>1. taskEntry' = taskEntry
      BY <1>3 DEF AgentAnswers
    <2>2. ASSUME NEW stage \in {"failing", "asking"}, GoesTo(d, stage) PROVE RequestInv'
      <3>1. PICK h \in Handlings : /\ handling' = [handling EXCEPT ![d] = h]
                                   /\ h = [handling[d] EXCEPT !.stage = stage]
        BY <2>2, GoesToIs DEF Stages
      <3>2. h.stage = stage /\ h.message = handling[d].message
        BY <3>1, HandlingTypes DEF Handlings
      <3> QED
        BY <1>1, <2>1, <3>1, <3>2, QuietHandler
    <2>3. ASSUME NEW o \in Outputs, handling' = [handling EXCEPT ![d].stage = "storing", ![d].output = o]
          PROVE  RequestInv'
      <3>1. PICK h : h = [message |-> handling[d].message, stage |-> "storing",
                          hosted |-> handling[d].hosted, output |-> o]
        OBVIOUS
      <3>2. h \in Handlings
        BY <3>1, HandlingTypes DEF Handlings, Stages
      <3>3. handling' = [handling EXCEPT ![d] = h]
        <4>1. /\ handling = [e \in Deliveries |-> handling[e]]
              /\ handling[d] = [message |-> handling[d].message, stage |-> handling[d].stage,
                                hosted |-> handling[d].hosted, output |-> handling[d].output]
          BY HandlingTypes
        <4>2. handling'[d] = h
          BY <2>3, <3>1, <4>1
        <4> QED
          BY <2>3, <4>1, <4>2
      <3> QED
        BY <1>1, <2>1, <3>1, <3>2, <3>3, QuietHandler
    <2> QED
      BY <1>3, <2>2, <2>3 DEF AgentAnswers
  <1> QED
    BY <1>2, <1>3

\* The handler has its result, or gives up.
LEMMA TaskEndsKeeps ==
  ASSUME RequestInv, NEW d \in Deliveries, AgentThrows(d) \/ Checkpointed(d)
  PROVE  RequestInv'
  <1>1. /\ InHand(d) /\ Answers(d)
        /\ UNCHANGED <<clock, stamp, nonceUntil, agentRuns, submitKey, deliverable, hostedRun, runnerCrashes>>
        /\ \E s \in {"completed", "failed"} : taskEntry' = [taskEntry EXCEPT ![TaskAt(d)] = s]
    BY DEF AgentThrows, Checkpointed, At, InHand, MarkTask
  <1>2. PICK h \in Handlings : handling' = [handling EXCEPT ![d] = h] /\ h.stage = "idle"
    BY <1>1, AnswersIs
  <1> QED
    BY <1>1, <1>2, QuietHandler

LEMMA StoreResultKeeps ==
  ASSUME RequestInv, NEW d \in Deliveries, StoreResult(d)
  PROVE  RequestInv'
  <1>1. /\ At(d, "storing") /\ InHand(d)
        /\ UNCHANGED <<clock, stamp, nonceUntil, agentRuns, submitKey, deliverable, hostedRun, runnerCrashes>>
        /\ \E s \in {"completed", "failed"} : taskEntry' = [taskEntry EXCEPT ![TaskAt(d)] = s]
    BY DEF StoreResult, At, InHand, MarkTask
  <1>2. CASE Answers(d)
    <2>1. PICK h \in Handlings : handling' = [handling EXCEPT ![d] = h] /\ h.stage = "idle"
      BY <1>2, AnswersIs
    <2> QED
      BY <1>1, <2>1, QuietHandler
  <1>3. CASE RouteAt(d) = "provider/run-and-submit" /\ GoesTo(d, "preparing")
    <2>1. PICK h \in Handlings : /\ handling' = [handling EXCEPT ![d] = h]
                                 /\ h = [handling[d] EXCEPT !.stage = "preparing"]
      BY <1>3, GoesToIs DEF Stages
    <2>2. h.stage = "preparing" /\ h.message = handling[d].message /\ h.output = handling[d].output
      BY <2>1, HandlingTypes DEF Handlings
    <2>3. h.output \in Outputs
      BY <1>1, <1>3, <2>2 DEF RequestInv, SubmitsAnOutput
    <2> QED
      BY <1>1, <2>1, <2>2, <2>3, QuietHandler
  <1> QED
    BY <1>2, <1>3 DEF StoreResult

\* A handling beyond the preparation has a job and an output to submit.
LEMMA SubmittingTypes ==
  ASSUME RequestInv, NEW d \in Deliveries,
         handling[d].stage \in {"preparing", "submitting", "receipting", "completing"}
  PROVE  /\ InHand(d) /\ JobAt(d) \in TaskJobs /\ handling[d].output \in Outputs
         /\ handling[d].output # NoOutput
  <1>1. InHand(d) /\ handling[d].output \in Outputs
    BY DEF InHand, RequestInv, SubmitsAnOutput
  <1> QED
    BY <1>1, RequestTypes, RequestAssumption

LEMMA SetKeyIs ==
  ASSUME RequestInv, NEW d \in Deliveries,
         handling[d].stage \in {"preparing", "submitting", "receipting", "completing"},
         NEW s \in {"none", "executing", "confirmed", "failed", "unknown"}, SetKey(d, s)
  PROVE  /\ submitKey' \in SubmitKeys
         /\ \A j \in TaskJobs : \A o \in Outputs : submitKey'[j][o] = "confirmed" =>
              submitKey[j][o] = "confirmed" \/ (s = "confirmed" /\ j = JobAt(d) /\ o = handling[d].output)
  <1>1. JobAt(d) \in TaskJobs /\ handling[d].output \in Outputs
    BY SubmittingTypes
  <1>2. submitKey' = [submitKey EXCEPT ![JobAt(d)][handling[d].output] = s]
    BY DEF SetKey
  <1> QED
    BY <1>1, <1>2, StoreTypes DEF SubmitKeys

LEMMA SubmitKeeps ==
  ASSUME RequestInv, NEW d \in Deliveries, Submit(d)
  PROVE  RequestInv'
  <1>1. /\ At(d, "preparing") /\ handling[d].stage = "preparing"
        /\ UNCHANGED <<clock, stamp, nonceUntil, taskEntry, agentRuns, deliverable, hostedRun, runnerCrashes>>
    BY DEF Submit, At
  <1>2. InHand(d) /\ JobAt(d) \in TaskJobs /\ handling[d].output \in Outputs
    BY <1>1, SubmittingTypes
  <1>3. CASE SetKey(d, "executing") /\ GoesTo(d, "submitting")
    <2>1. PICK h \in Handlings : /\ handling' = [handling EXCEPT ![d] = h]
                                 /\ h = [handling[d] EXCEPT !.stage = "submitting"]
      BY <1>3, GoesToIs DEF Stages
    <2>2. h.stage = "submitting" /\ h.message = handling[d].message /\ h.output = handling[d].output
      BY <2>1, HandlingTypes DEF Handlings
    <2>3. /\ submitKey' \in SubmitKeys
          /\ \A j \in TaskJobs : \A o \in Outputs :
               submitKey'[j][o] = "confirmed" => submitKey[j][o] = "confirmed"
      BY <1>1, <1>3, SetKeyIs
    <2> QED
      BY <1>1, <1>2, <2>1, <2>2, <2>3, HandlerKeeps, StoreTypes
  <1>4. CASE KeyAt(d) = "confirmed" /\ GoesTo(d, "receipting") /\ UNCHANGED submitKey
    <2>1. PICK h \in Handlings : /\ handling' = [handling EXCEPT ![d] = h]
                                 /\ h = [handling[d] EXCEPT !.stage = "receipting"]
      BY <1>4, GoesToIs DEF Stages
    <2>2. h.stage = "receipting" /\ h.message = handling[d].message /\ h.output = handling[d].output
      BY <2>1, HandlingTypes DEF Handlings
    <2>3. deliverable[JobAt(d)] = h.output
      BY <1>2, <1>4, <2>2 DEF KeyAt, RequestInv, ConfirmedIsOnChain
    <2> QED
      BY <1>1, <1>2, <1>4, <2>1, <2>2, <2>3, QuietHandler
  <1>5. CASE Answers(d) /\ UNCHANGED submitKey
    <2>1. PICK h \in Handlings : handling' = [handling EXCEPT ![d] = h] /\ h.stage = "idle"
      BY <1>5, AnswersIs
    <2> QED
      BY <1>1, <1>2, <1>5, <2>1, QuietHandler
  <1> QED
    BY <1>3, <1>4, <1>5 DEF Submit

\* The contract takes one deliverable, and never gives it up.
LEMMA MineDeliverableIs ==
  ASSUME RequestInv, NEW d \in Deliveries,
         handling[d].stage \in {"preparing", "submitting", "receipting", "completing"}, MineDeliverable(d)
  PROVE  /\ deliverable' \in [TaskJobs -> Outputs \cup {NoOutput}]
         /\ deliverable'[JobAt(d)] = handling[d].output
         /\ \A j \in TaskJobs : deliverable[j] # NoOutput => deliverable'[j] = deliverable[j]
  BY SubmittingTypes, StoreTypes DEF MineDeliverable

LEMMA SubmitEndsKeeps ==
  ASSUME RequestInv, NEW d \in Deliveries, SubmitEnds(d)
  PROVE  RequestInv'
  <1>1. /\ handling[d].stage = "submitting"
        /\ UNCHANGED <<clock, stamp, nonceUntil, taskEntry, agentRuns, hostedRun, runnerCrashes>>
    BY DEF SubmitEnds, At
  <1>2. InHand(d) /\ JobAt(d) \in TaskJobs /\ handling[d].output \in Outputs
    BY <1>1, SubmittingTypes
  <1>3. CASE MineDeliverable(d) /\ SetKey(d, "confirmed") /\ GoesTo(d, "receipting")
    <2>1. PICK h \in Handlings : /\ handling' = [handling EXCEPT ![d] = h]
                                 /\ h = [handling[d] EXCEPT !.stage = "receipting"]
      BY <1>3, GoesToIs DEF Stages
    <2>2. h.stage = "receipting" /\ h.message = handling[d].message /\ h.output = handling[d].output
      BY <2>1, HandlingTypes DEF Handlings
    <2>3. /\ deliverable' \in [TaskJobs -> Outputs \cup {NoOutput}]
          /\ deliverable'[JobAt(d)] = handling[d].output
          /\ \A j \in TaskJobs : deliverable[j] # NoOutput => deliverable'[j] = deliverable[j]
      BY <1>1, <1>3, MineDeliverableIs
    <2>4. /\ submitKey' \in SubmitKeys
          /\ \A j \in TaskJobs : \A o \in Outputs : submitKey'[j][o] = "confirmed" =>
               submitKey[j][o] = "confirmed" \/ (j = JobAt(d) /\ o = handling[d].output)
      BY <1>1, <1>3, SetKeyIs
    <2>5. \A j \in TaskJobs : \A o \in Outputs : submitKey'[j][o] = "confirmed" =>
               submitKey[j][o] = "confirmed" \/ deliverable'[j] = o
      BY <2>3, <2>4
    <2>6. \A j \in TaskJobs : hostedRun'[j].status = "completed" =>
               hostedRun[j].status = "completed" /\ hostedRun'[j].output = hostedRun[j].output
      BY <1>1
    <2>7. /\ h.output \in Outputs /\ deliverable'[JobAt(d)] = h.output
          /\ hostedRun' \in HostedRuns
          /\ taskEntry' = taskEntry /\ agentRuns' = agentRuns
          /\ UNCHANGED <<clock, stamp, nonceUntil, runnerCrashes>>
      BY <1>1, <1>2, <2>2, <2>3, StoreTypes
    <2>8. h.stage = "receipting"
      BY <2>2
    <2>9. \A j \in TaskJobs : hostedRun'[j].status = "completed" =>
            \/ hostedRun[j].status = "completed" /\ hostedRun'[j].output = hostedRun[j].output
            \/ deliverable'[j] = hostedRun'[j].output /\ hostedRun'[j].output \in Outputs
      BY <2>6
    <2> HIDE DEF SubmitKeys, HostedRuns, Handlings
    <2> QED
      BY <1>2, <2>1, <2>2, <2>3, <2>4, <2>5, <2>7, <2>9, HandlerKeeps
  <1>4. CASE /\ \E s \in {"failed", "unknown"} : SetKey(d, s)
             /\ MineDeliverable(d) \/ UNCHANGED deliverable
             /\ Answers(d)
    <2>1. PICK h \in Handlings : handling' = [handling EXCEPT ![d] = h] /\ h.stage = "idle"
      BY <1>4, AnswersIs
    <2>2. /\ deliverable' \in [TaskJobs -> Outputs \cup {NoOutput}]
          /\ \A j \in TaskJobs : deliverable[j] # NoOutput => deliverable'[j] = deliverable[j]
      BY <1>1, <1>4, MineDeliverableIs, StoreTypes
    <2>3. /\ submitKey' \in SubmitKeys
          /\ \A j \in TaskJobs : \A o \in Outputs :
               submitKey'[j][o] = "confirmed" => submitKey[j][o] = "confirmed"
      BY <1>1, <1>4, SetKeyIs
    <2>4. \A j \in TaskJobs : hostedRun'[j].status = "completed" =>
               hostedRun[j].status = "completed" /\ hostedRun'[j].output = hostedRun[j].output
      BY <1>1
    <2> QED
      BY <1>1, <1>2, <2>1, <2>2, <2>3, <2>4, HandlerKeeps, StoreTypes
  <1> QED
    BY <1>3, <1>4 DEF SubmitEnds

LEMMA StoreReceiptKeeps ==
  ASSUME RequestInv, NEW d \in Deliveries, StoreReceipt(d)
  PROVE  RequestInv'
  <1>1. /\ handling[d].stage = "receipting"
        /\ UNCHANGED <<clock, stamp, nonceUntil, taskEntry, agentRuns, submitKey, deliverable, hostedRun,
                       runnerCrashes>>
    BY DEF StoreReceipt, At
  <1>2. /\ InHand(d) /\ JobAt(d) \in TaskJobs /\ handling[d].output \in Outputs
        /\ deliverable[JobAt(d)] = handling[d].output
    BY <1>1, SubmittingTypes DEF RequestInv, ReportedIsOnChain
  <1>3. CASE GoesTo(d, "completing")
    <2>1. PICK h \in Handlings : /\ handling' = [handling EXCEPT ![d] = h]
                                 /\ h = [handling[d] EXCEPT !.stage = "completing"]
      BY <1>3, GoesToIs DEF Stages
    <2>2. h.stage = "completing" /\ h.message = handling[d].message /\ h.output = handling[d].output
      BY <2>1, HandlingTypes DEF Handlings
    <2> QED
      BY <1>1, <1>2, <2>1, <2>2, QuietHandler
  <1>4. CASE Answers(d)
    <2>1. PICK h \in Handlings : handling' = [handling EXCEPT ![d] = h] /\ h.stage = "idle"
      BY <1>4, AnswersIs
    <2> QED
      BY <1>1, <1>2, <2>1, QuietHandler
  <1> QED
    BY <1>3, <1>4 DEF StoreReceipt

LEMMA CompleteJobRunKeeps ==
  ASSUME RequestInv, NEW d \in Deliveries, CompleteJobRun(d)
  PROVE  RequestInv'
  <1>1. /\ handling[d].stage = "completing" /\ Answers(d)
        /\ UNCHANGED <<clock, stamp, nonceUntil, taskEntry, agentRuns, submitKey, deliverable, runnerCrashes>>
    BY DEF CompleteJobRun, At
  <1>2. /\ InHand(d) /\ JobAt(d) \in TaskJobs /\ handling[d].output \in Outputs
        /\ deliverable[JobAt(d)] = handling[d].output
    BY <1>1, SubmittingTypes DEF RequestInv, ReportedIsOnChain
  <1>3. PICK h \in Handlings : handling' = [handling EXCEPT ![d] = h] /\ h.stage = "idle"
    BY <1>1, AnswersIs
  <1>4. /\ hostedRun' \in HostedRuns
        /\ \A j \in TaskJobs : hostedRun'[j].status = "completed" =>
             \/ hostedRun[j].status = "completed" /\ hostedRun'[j].output = hostedRun[j].output
             \/ deliverable'[j] = hostedRun'[j].output /\ hostedRun'[j].output \in Outputs
    <2>1. CASE hostedRun' = [hostedRun EXCEPT ![JobAt(d)] =
                             [status |-> "completed", output |-> handling[d].output]]
      BY <1>1, <1>2, <2>1, StoreTypes DEF HostedRuns
    <2>2. CASE UNCHANGED hostedRun
      BY <2>2, StoreTypes
    <2> QED
      BY <2>1, <2>2 DEF CompleteJobRun
  <1> QED
    BY <1>1, <1>2, <1>3, <1>4, HandlerKeeps, StoreTypes

\* The stores and the handlers are gone; the journal and the chain are not.
LEMMA RunnerRestartsKeeps == ASSUME RequestInv, RunnerRestarts PROVE RequestInv'
  <1>1. /\ runnerCrashes' = runnerCrashes + 1 /\ runnerCrashes < MaxRunnerCrashes
        /\ nonceUntil' = [m \in Messages |-> 0] /\ taskEntry' = [t \in Tasks |-> "none"]
        /\ handling' = [d \in Deliveries |-> NoHandling] /\ agentRuns' = [t \in Tasks |-> 0]
        /\ submitKey' = [j \in TaskJobs |-> [o \in Outputs |->
                       IF submitKey[j][o] = "executing" THEN "failed" ELSE submitKey[j][o]]]
        /\ UNCHANGED <<clock, stamp, hostedRun>>
    BY DEF RunnerRestarts
  <1>2. /\ deliverable' \in [TaskJobs -> Outputs \cup {NoOutput}]
        /\ \A j \in TaskJobs : deliverable[j] # NoOutput => deliverable'[j] = deliverable[j]
    <2>1. CASE UNCHANGED deliverable
      BY <2>1, StoreTypes
    <2>2. ASSUME NEW d \in Deliveries, At(d, "submitting"), MineDeliverable(d)
          PROVE  /\ deliverable' \in [TaskJobs -> Outputs \cup {NoOutput}]
                 /\ \A j \in TaskJobs : deliverable[j] # NoOutput => deliverable'[j] = deliverable[j]
      BY <2>2, MineDeliverableIs DEF At
    <2> QED
      BY <2>1, <2>2 DEF RunnerRestarts
  <1>3. \A j \in TaskJobs : \A o \in Outputs :
          submitKey'[j][o] = "confirmed" => submitKey[j][o] = "confirmed"
    BY <1>1
  <1>4. submitKey' \in SubmitKeys
    BY <1>1, StoreTypes DEF SubmitKeys
  <1>5. RequestTypeOK'
    <2>1. handling' \in [Deliveries -> Handlings]
      BY <1>1 DEF NoHandling, Handlings, Stages
    <2>2. /\ nonceUntil' \in [Messages -> 0 .. LastTick + NonceTtl] /\ agentRuns' \in [Tasks -> 0 .. 2]
          /\ taskEntry' \in [Tasks -> {"none", "pending", "completed", "failed"}]
          /\ runnerCrashes' \in 0 .. MaxRunnerCrashes
      BY <1>1, RequestAssumption DEF RequestInv, RequestTypeOK
    <2> QED
      BY <1>1, <1>2, <1>4, <2>1, <2>2 DEF RequestInv, RequestTypeOK, Handlings, SubmitKeys
  <1>6. InHandIsReserved' /\ UnreservedIsUnrun' /\ TaskRunsOnce' /\ SubmitsAnOutput' /\ ReportedIsOnChain'
    BY <1>1 DEF InHandIsReserved, UnreservedIsUnrun, TaskRunsOnce, SubmitsAnOutput, ReportedIsOnChain,
       InHand, At, NoHandling
  <1>7. ConfirmedIsOnChain' /\ CompletedHasOutput'
    <2>1. \A o \in Outputs : o # NoOutput
      BY RequestAssumption
    <2> QED
      BY <1>1, <1>2, <1>3, <2>1 DEF RequestInv, ConfirmedIsOnChain, CompletedHasOutput
  <1> QED
    BY <1>5, <1>6, <1>7 DEF RequestInv

LEMMA NextRequestInv == RequestInv /\ [RequestNext]_requestVars => RequestInv'
  <1> SUFFICES ASSUME RequestInv, [RequestNext]_requestVars PROVE RequestInv'
    OBVIOUS
  <1>1. CASE UNCHANGED requestVars
    <2>1. RequestTypeOK'
      BY <1>1 DEF requestVars, RequestInv, RequestTypeOK
    <2> QED
      BY <1>1, <2>1 DEF requestVars, RequestInv, InHandIsReserved, UnreservedIsUnrun, TaskRunsOnce,
         SubmitsAnOutput, ConfirmedIsOnChain, ReportedIsOnChain, CompletedHasOutput, InHand, At,
         TaskAt, JobAt, RouteAt
  <1>2. CASE RequestNext
    BY <1>2, SignTickKeep, ReceiveKeeps, StartJobRunKeeps, AgentAnswersKeeps, TaskEndsKeeps,
       StoreResultKeeps, SubmitKeeps, SubmitEndsKeeps, StoreReceiptKeeps, CompleteJobRunKeeps,
       RunnerRestartsKeeps DEF RequestNext
  <1> QED
    BY <1>1, <1>2

LEMMA RequestInvGives == RequestInv => RequestTypeOK /\ TaskRunsOnce /\ CompletedRunIsOnChain
  BY DEF RequestInv, CompletedHasOutput, CompletedRunIsOnChain
-----------------------------------------------------------------------------
(* A checkpoint of the bot's own starts the count of retries anew, so that *)
(* a run whose newest phase is a failure has all its retries left.         *)

ToolHasJob == \A b \in Bots : tool[b].name # "none" => tool[b].job \in Gigs

FailedIsUnretried ==
    \A j \in Gigs : jobRun[j].phase \in RetryablePhases => jobRun[j].retries = 0

RuntimeInv ==
    /\ RuntimeTypeOK
    /\ ToolHasJob
    /\ FailedIsUnretried

LEMMA InitRuntimeInv == RuntimeInit => RuntimeInv
  BY ProviderRuntimeAssumption DEF RuntimeInit, RuntimeInv, RuntimeTypeOK, ToolHasJob, FailedIsUnretried,
     NoTool, Unstarted, Phases, RetryablePhases, MaxRetryCount

LEMMA RuntimeTypes ==
  ASSUME RuntimeInv
  PROVE  /\ \A j \in Gigs : jobRun[j] \in [status : {"none", "active", "completed"}, phase : Phases,
                                           retries : 0 .. MaxRetryCount]
         /\ \A b \in Bots : tool[b] \in [name : {"none", "start", "complete", "retry", "regranted"},
                                         job : Gigs \cup {NoGig}]
  BY DEF RuntimeInv, RuntimeTypeOK

\* A bot's call changes at most the run of one job.
LEMMA RunChanges ==
  ASSUME RuntimeInv, NEW j \in Gigs,
         NEW r \in [status : {"none", "active", "completed"}, phase : Phases, retries : 0 .. MaxRetryCount],
         r.phase \in RetryablePhases => r.retries = 0,
         jobRun' = [jobRun EXCEPT ![j] = r]
  PROVE  /\ jobRun' \in [Gigs -> [status : {"none", "active", "completed"}, phase : Phases,
                                  retries : 0 .. MaxRetryCount]]
         /\ FailedIsUnretried'
  BY DEF RuntimeInv, RuntimeTypeOK, FailedIsUnretried

\* A bot calls with a job, or has its answer.
LEMMA ToolChanges ==
  ASSUME RuntimeInv, NEW b \in Bots,
         \/ Returns(b)
         \/ \E j \in Gigs : \E name \in {"start", "complete", "retry", "regranted"} : Calling(b, name, j)
         \/ UNCHANGED tool
  PROVE  /\ tool' \in [Bots -> [name : {"none", "start", "complete", "retry", "regranted"},
                                job : Gigs \cup {NoGig}]]
         /\ ToolHasJob'
  <1>1. CASE UNCHANGED tool
    BY <1>1 DEF RuntimeInv, RuntimeTypeOK, ToolHasJob
  <1>2. CASE Returns(b)
    BY <1>2 DEF RuntimeInv, RuntimeTypeOK, ToolHasJob, Returns, NoTool
  <1>3. ASSUME NEW j \in Gigs, NEW name \in {"start", "complete", "retry", "regranted"}, Calling(b, name, j)
        PROVE  /\ tool' \in [Bots -> [name : {"none", "start", "complete", "retry", "regranted"},
                                job : Gigs \cup {NoGig}]]
               /\ ToolHasJob'
    BY <1>3 DEF RuntimeInv, RuntimeTypeOK, ToolHasJob, Calling
  <1> QED
    BY <1>1, <1>2, <1>3

LEMMA RuntimeCallKeeps ==
  ASSUME RuntimeInv, NEW b \in Bots, NEW j \in Gigs,
         \/ StartRun(b, j) \/ CompleteRun(b, j) \/ RetryRun(b, j)
         \/ \E phase \in PhasesUsed : WriteCheckpoint(b, j, phase)
  PROVE  RuntimeInv'
  <1>1. /\ tool' \in [Bots -> [name : {"none", "start", "complete", "retry", "regranted"},
                               job : Gigs \cup {NoGig}]]
        /\ ToolHasJob'
    BY ToolChanges DEF StartRun, CompleteRun, RetryRun, WriteCheckpoint
  <1>2. UNCHANGED <<taken, pointer, application>>
    BY DEF StartRun, CompleteRun, RetryRun, WriteCheckpoint
  <1>3. CASE UNCHANGED jobRun
    BY <1>1, <1>2, <1>3 DEF RuntimeInv, RuntimeTypeOK, FailedIsUnretried
  <1>4. CASE jobRun' # jobRun
    <2>1. CASE StartRun(b, j)
      <3>1. PICK phase \in PhasesUsed :
              jobRun' = [jobRun EXCEPT ![j] = [status |-> "active", phase |-> phase, retries |-> 0]]
        BY <1>4, <2>1 DEF StartRun
      <3>2. PICK r : r = [status |-> "active", phase |-> phase, retries |-> 0]
        OBVIOUS
      <3>3. /\ r \in [status : {"none", "active", "completed"}, phase : Phases, retries : 0 .. MaxRetryCount]
            /\ r.retries = 0
        BY <3>2, ProviderRuntimeAssumption DEF MaxRetryCount
      <3>4. jobRun' = [jobRun EXCEPT ![j] = r]
        BY <3>1, <3>2
      <3> QED
        BY <1>1, <1>2, <3>3, <3>4, RunChanges DEF RuntimeInv, RuntimeTypeOK
    <2>2. CASE CompleteRun(b, j)
      <3>1. PICK r : r = [jobRun[j] EXCEPT !.status = "completed"]
        OBVIOUS
      <3>2. jobRun' = [jobRun EXCEPT ![j] = r]
        BY <2>2, <3>1 DEF CompleteRun, RuntimeInv, RuntimeTypeOK
      <3>3. /\ r \in [status : {"none", "active", "completed"}, phase : Phases, retries : 0 .. MaxRetryCount]
            /\ r.phase \in RetryablePhases => r.retries = 0
        BY <3>1, RuntimeTypes DEF RuntimeInv, FailedIsUnretried
      <3> QED
        BY <1>1, <1>2, <3>2, <3>3, RunChanges DEF RuntimeInv, RuntimeTypeOK
    <2>3. ASSUME NEW phase \in PhasesUsed, WriteCheckpoint(b, j, phase) PROVE RuntimeInv'
      <3>1. PICK r : r = [status |-> jobRun[j].status, phase |-> phase, retries |-> 0]
        OBVIOUS
      <3>2. jobRun' = [jobRun EXCEPT ![j] = r]
        <4>1. jobRun = [k \in Gigs |-> jobRun[k]]
          BY DEF RuntimeInv, RuntimeTypeOK
        <4>2. jobRun[j] = [status |-> jobRun[j].status, phase |-> jobRun[j].phase,
                           retries |-> jobRun[j].retries]
          BY RuntimeTypes
        <4>3. jobRun' = [jobRun EXCEPT ![j].phase = phase, ![j].retries = 0]
          BY <2>3 DEF WriteCheckpoint
        <4>4. jobRun'[j] = r
          BY <3>1, <4>1, <4>2, <4>3
        <4> QED
          BY <4>1, <4>3, <4>4
      <3>3. /\ r \in [status : {"none", "active", "completed"}, phase : Phases, retries : 0 .. MaxRetryCount]
            /\ r.retries = 0
        BY <3>1, RuntimeTypes, ProviderRuntimeAssumption DEF MaxRetryCount
      <3> QED
        BY <1>1, <1>2, <3>2, <3>3, RunChanges DEF RuntimeInv, RuntimeTypeOK
    <2> QED
      BY <1>4, <2>1, <2>2, <2>3 DEF RetryRun
  <1> QED
    BY <1>3, <1>4

LEMMA RuntimeAnswerKeeps ==
  ASSUME RuntimeInv, NEW b \in Bots,
         \/ SyncPointer(b) \/ ClearPointer(b) \/ Reactivate(b) \/ NoteRetry(b)
         \/ GetContext(b) \/ BotDies(b)
  PROVE  RuntimeInv'
  <1>1. PICK j : j = tool[b].job
    OBVIOUS
  <1>2. CASE SyncPointer(b) \/ ClearPointer(b)
    <2>1. j \in Gigs /\ UNCHANGED <<taken, jobRun, application>> /\ Returns(b)
          /\ pointer' \in {pointer, j, NoGig}
      BY <1>1, <1>2 DEF RuntimeInv, ToolHasJob, SyncPointer, ClearPointer, IsCalling, PointerAfter
    <2> QED
      BY <2>1, ToolChanges DEF RuntimeInv, RuntimeTypeOK, FailedIsUnretried
  <1>3. CASE Reactivate(b)
    <2>1. j \in Gigs /\ UNCHANGED <<taken, application>> /\ pointer' = j /\ Calling(b, "regranted", j)
      BY <1>1, <1>3 DEF RuntimeInv, ToolHasJob, Reactivate, IsCalling
    <2>2. PICK r : r = [jobRun[j] EXCEPT !.status = "active"]
      OBVIOUS
    <2>3. jobRun' = [jobRun EXCEPT ![j] = r]
      BY <1>1, <1>3, <2>2 DEF Reactivate, RuntimeInv, RuntimeTypeOK
    <2>4. /\ r \in [status : {"none", "active", "completed"}, phase : Phases, retries : 0 .. MaxRetryCount]
          /\ r.phase \in RetryablePhases => r.retries = 0
      BY <2>1, <2>2, RuntimeTypes DEF RuntimeInv, FailedIsUnretried
    <2> QED
      BY <2>1, <2>3, <2>4, RunChanges, ToolChanges DEF RuntimeInv, RuntimeTypeOK
  <1>4. CASE NoteRetry(b)
    <2>1. j \in Gigs /\ UNCHANGED <<taken, pointer, application>> /\ Returns(b)
      BY <1>1, <1>4 DEF RuntimeInv, ToolHasJob, NoteRetry, IsCalling
    <2>2. PICK n : n = IF jobRun[j].retries < MaxRetryCount THEN jobRun[j].retries + 1 ELSE jobRun[j].retries
      OBVIOUS
    <2>3. PICK r : r = [status |-> jobRun[j].status, phase |-> "retry_requested", retries |-> n]
      OBVIOUS
    <2>4. jobRun' = [jobRun EXCEPT ![j] = r]
      <3>1. jobRun = [k \in Gigs |-> jobRun[k]]
        BY DEF RuntimeInv, RuntimeTypeOK
      <3>2. jobRun[j] = [status |-> jobRun[j].status, phase |-> jobRun[j].phase,
                         retries |-> jobRun[j].retries]
        BY <2>1, RuntimeTypes
      <3>3. jobRun' = [jobRun EXCEPT ![j].phase = "retry_requested",
                            ![j].retries = IF @ < MaxRetryCount THEN @ + 1 ELSE @]
        BY <1>1, <1>4 DEF NoteRetry
      <3>4. jobRun'[j] = r
        BY <2>1, <2>2, <2>3, <3>1, <3>2, <3>3
      <3> QED
        BY <2>1, <3>1, <3>3, <3>4
    <2>5. n \in 0 .. MaxRetryCount
      BY <2>1, <2>2, RuntimeTypes DEF MaxRetryCount
    <2>6. /\ r \in [status : {"none", "active", "completed"}, phase : Phases, retries : 0 .. MaxRetryCount]
          /\ r.phase \in RetryablePhases => r.retries = 0
      BY <2>1, <2>3, <2>5, RuntimeTypes DEF Phases, RetryablePhases
    <2> QED
      BY <2>1, <2>4, <2>6, RunChanges, ToolChanges DEF RuntimeInv, RuntimeTypeOK
  <1>5. CASE GetContext(b)
    <2>1. UNCHANGED <<taken, jobRun, application, tool>> /\ pointer' \in Gigs \cup {NoGig}
      BY <1>5 DEF GetContext, ActiveRun, RuntimeInv, RuntimeTypeOK
    <2> QED
      BY <2>1 DEF RuntimeInv, RuntimeTypeOK, ToolHasJob, FailedIsUnretried
  <1>6. CASE BotDies(b)
    <2>1. UNCHANGED <<taken, jobRun, pointer, application>> /\ Returns(b)
      BY <1>6 DEF BotDies
    <2> QED
      BY <2>1, ToolChanges DEF RuntimeInv, RuntimeTypeOK, FailedIsUnretried
  <1> QED
    BY <1>2, <1>3, <1>4, <1>5, <1>6

LEMMA NextRuntimeInv == RuntimeInv /\ [RuntimeNext]_runtimeVars => RuntimeInv'
  <1> SUFFICES ASSUME RuntimeInv, [RuntimeNext]_runtimeVars PROVE RuntimeInv'
    OBVIOUS
  <1>1. CASE UNCHANGED runtimeVars
    BY <1>1 DEF runtimeVars, RuntimeInv, RuntimeTypeOK, ToolHasJob, FailedIsUnretried
  <1>2. ASSUME NEW j \in Gigs, GigTaken(j) PROVE RuntimeInv'
    BY <1>2 DEF GigTaken, RuntimeInv, RuntimeTypeOK, ToolHasJob, FailedIsUnretried
  <1>3. ASSUME NEW b \in Bots, NEW j \in Gigs, ApplyToOpenJob(b, j) \/ Withdraw(b, j) PROVE RuntimeInv'
    BY <1>3 DEF ApplyToOpenJob, Withdraw, RuntimeInv, RuntimeTypeOK, ToolHasJob, FailedIsUnretried
  <1> QED
    BY <1>1, <1>2, <1>3, RuntimeCallKeeps, RuntimeAnswerKeeps DEF RuntimeNext

LEMMA RuntimeInvGives == RuntimeInv => RuntimeTypeOK /\ WorkIsResumed
  <1> SUFFICES ASSUME RuntimeInv PROVE WorkIsResumed
    BY DEF RuntimeInv
  <1>1. (\E j \in Gigs : Active(j)) => ActiveRun # {}
    BY DEF ActiveRun
  <1>2. \A j \in ActiveRun : Active(j) /\ j \in Gigs
    BY DEF ActiveRun, RuntimeInv, RuntimeTypeOK
  <1>3. \A j \in ActiveRun : NextAction("Funded", "us", jobRun[j].phase) = "none" =>
             jobRun[j].phase \in RetryablePhases /\ jobRun[j].retries < MaxRetryCount
    <2> SUFFICES ASSUME NEW j \in ActiveRun, NextAction("Funded", "us", jobRun[j].phase) = "none"
                 PROVE jobRun[j].phase \in RetryablePhases /\ jobRun[j].retries < MaxRetryCount
      OBVIOUS
    <2>1. jobRun[j].phase = "runtime_failed"
      <3>1. PICK phase : phase = jobRun[j].phase
        OBVIOUS
      <3>2. phase \in Phases
        BY <1>2, <3>1, RuntimeTypes
      <3>3. NextAction("Funded", "us", phase) = "none" => phase = "runtime_failed"
        BY <3>2 DEF NextAction, Phases
      <3> QED
        BY <3>1, <3>3
    <2>2. jobRun[j].retries = 0
      BY <1>2, <2>1 DEF RuntimeInv, FailedIsUnretried, RetryablePhases
    <2> QED
      BY <2>1, <2>2 DEF RetryablePhases, MaxRetryCount
  <1> QED
    BY <1>1, <1>2, <1>3 DEF WorkIsResumed
-----------------------------------------------------------------------------
(***************************************************************************)
(* The registration of an identity.  While nothing has slipped the lock    *)
(* file names the one command that is registering; what a command has      *)
(* found, or looks up, is a token, and what it found was minted; a key     *)
(* names one registration.                                                 *)
(***************************************************************************)
AnyToken == Tokens \cup {NoToken}
Commands == [stage : EnsureStages, found : SUBSET Tokens, token : Tokens \cup {NoToken}]
Identities == [status : {"none", "pending", "confirmed"}, token : Tokens \cup {NoToken},
               unsynced : BOOLEAN]
Registrations == [status : {"none", "submitted", "failed", "confirmed"}, token : Tokens \cup {NoToken}]
LockFiles == [holder : Ensures \cup {NoEnsure}, stale : BOOLEAN]
Mintings == [state : {"unsent", "live", "minted", "reverted"}, key : Metas \cup {NoMeta}, ours : BOOLEAN]

RegisteringStages == {"write", "register", "store hash", "sync new", "release"}
TakeoverStages    == {"stale", "retry lock"}
LookupStages      == {"resync", "finalize", "sync", "sync new"}

LockIsHeld ==
    slips = 0 =>
        /\ ~lockFile.stale
        /\ \A e \in Ensures : /\ ensure[e].stage \notin TakeoverStages
                              /\ ensure[e].stage \in RegisteringStages <=> lockFile.holder = e

LooksUpAToken == \A e \in Ensures : ensure[e].stage \in LookupStages => ensure[e].token \in Tokens

KnownIsMinted ==
    /\ identity.status = "confirmed" => identity.token \in Tokens /\ Mined(identity.token)
    /\ \A t \in roster : Mined(t)
    /\ \A e \in Ensures : \A t \in ensure[e].found : Mined(t)

KeysNameOne ==
    \A t \in Tokens : \A u \in Tokens :
        minting[t].key = minting[u].key /\ minting[t].key # NoMeta => t = u

IdentityInv == EnsureTypeOK /\ LockIsHeld /\ LooksUpAToken /\ KnownIsMinted /\ KeysNameOne

LEMMA InitIdentityInv == EnsureInit => IdentityInv
  <1> SUFFICES ASSUME EnsureInit PROVE IdentityInv
    OBVIOUS
  <1>1. \A t \in Tokens : /\ minting[t] \in Mintings
                          /\ minting[t].key = NoMeta
    BY DEF EnsureInit, Mintings
  <1>2. minting \in [Tokens -> Mintings]
    BY <1>1 DEF EnsureInit
  <1>3. Out \in Commands
    BY DEF Out, Commands, EnsureStages
  <1>4. /\ ensure \in [Ensures -> Commands]
        /\ \A e \in Ensures : ensure[e] = Out
    BY <1>3 DEF EnsureInit
  <1>5. /\ identity \in Identities /\ identity.status = "none"
        /\ registration \in Registrations
        /\ lockFile \in LockFiles /\ lockFile.holder = NoEnsure /\ ~lockFile.stale
        /\ roster = {} /\ slips = 0
    BY DEF EnsureInit, Identities, Registrations, LockFiles, Absent
  <1>6. EnsureTypeOK
    BY <1>2, <1>4, <1>5, EnsureAssumption
    DEF EnsureTypeOK, Mintings, Commands, Identities, Registrations, LockFiles
  <1>7. \A e \in Ensures : ensure[e].stage = "out" /\ ensure[e].found = {}
    BY <1>4 DEF Out
  <1>8. LockIsHeld /\ LooksUpAToken
    BY <1>5, <1>7, EnsureAssumption
    DEF LockIsHeld, LooksUpAToken, TakeoverStages, RegisteringStages, LookupStages
  <1>9. KnownIsMinted /\ KeysNameOne
    BY <1>1, <1>5, <1>7 DEF KnownIsMinted, KeysNameOne
  <1> QED
    BY <1>6, <1>8, <1>9 DEF IdentityInv

LEMMA EnsureTypes ==
  ASSUME IdentityInv
  PROVE  /\ minting \in [Tokens -> Mintings] /\ identity \in Identities
         /\ registration \in Registrations /\ lockFile \in LockFiles
         /\ roster \in SUBSET Tokens /\ ensure \in [Ensures -> Commands]
         /\ slips \in 0 .. MaxSlips
  BY DEF IdentityInv, EnsureTypeOK, Mintings, Identities, Registrations, LockFiles, Commands

\* What a command does to its own record.
LEMMA ToIs ==
  ASSUME IdentityInv, NEW e \in Ensures, NEW s \in EnsureStages, To(e, s)
  PROVE  \E h \in Commands : /\ ensure' = [ensure EXCEPT ![e] = h] /\ h.stage = s
                             /\ h.found = ensure[e].found /\ h.token = ensure[e].token
  <1>1. ensure[e] \in Commands
    BY EnsureTypes
  <1>2. PICK h : h = [ensure[e] EXCEPT !.stage = s]
    OBVIOUS
  <1>3. h \in Commands /\ h.stage = s /\ h.found = ensure[e].found /\ h.token = ensure[e].token
    BY <1>1, <1>2 DEF Commands
  <1>4. ensure' = [ensure EXCEPT ![e] = h]
    BY <1>2, EnsureTypes DEF To
  <1> QED
    BY <1>3, <1>4

LEMMA OverIs ==
  ASSUME IdentityInv, NEW e \in Ensures, Over(e)
  PROVE  \E h \in Commands : /\ ensure' = [ensure EXCEPT ![e] = h] /\ h.stage = "out" /\ h.found = {}
  <1>1. Out \in Commands /\ Out.stage = "out" /\ Out.found = {}
    BY DEF Out, Commands, EnsureStages
  <1>2. ensure' = [ensure EXCEPT ![e] = Out]
    BY DEF Over
  <1> QED
    BY <1>1, <1>2

LEMMA WithIs ==
  ASSUME IdentityInv, NEW e \in Ensures, NEW s \in EnsureStages, NEW t \in AnyToken, With(e, s, t)
  PROVE  \E h \in Commands : /\ ensure' = [ensure EXCEPT ![e] = h] /\ h.stage = s
                             /\ h.found = ensure[e].found /\ h.token = t
  <1>1. ensure \in [Ensures -> Commands] /\ ensure[e] \in Commands
    BY EnsureTypes
  <1>2. PICK h : h = [stage |-> s, found |-> ensure[e].found, token |-> t]
    OBVIOUS
  <1>3. h \in Commands /\ h.stage = s /\ h.found = ensure[e].found /\ h.token = t
    BY <1>1, <1>2 DEF Commands, AnyToken
  <1>4. ensure' = [ensure EXCEPT ![e].stage = s, ![e].token = t]
    BY DEF With
  <1>5. ensure = [x \in Ensures |-> ensure[x]]
    BY <1>1
  <1>6. ensure[e] = [stage |-> ensure[e].stage, found |-> ensure[e].found, token |-> ensure[e].token]
    BY <1>1 DEF Commands
  <1>7. ensure'[e] = h
    BY <1>1, <1>2, <1>4, <1>6
  <1>8. ensure' = [ensure EXCEPT ![e] = h]
    BY <1>1, <1>4, <1>5, <1>7
  <1> QED
    BY <1>3, <1>8

\* A step of a command that leaves the chain alone.
LEMMA CommandKeeps ==
  ASSUME IdentityInv, NEW e \in Ensures, NEW h \in Commands,
         ensure' = [ensure EXCEPT ![e] = h], minting' = minting,
         identity' \in Identities, registration' \in Registrations, lockFile' \in LockFiles,
         roster' \in SUBSET Tokens, slips' \in 0 .. MaxSlips,
         h.stage \in LookupStages => h.token \in Tokens,
         \A t \in h.found : Mined(t),
         identity'.status = "confirmed" => identity'.token \in Tokens /\ Mined(identity'.token),
         \A t \in roster' : Mined(t),
         slips' = 0 => /\ slips = 0 /\ ~lockFile'.stale /\ h.stage \notin TakeoverStages
                       /\ h.stage \in RegisteringStages <=> lockFile'.holder = e
                       /\ \A x \in Ensures : x # e => (lockFile'.holder = x <=> lockFile.holder = x)
  PROVE  IdentityInv'
  <1>1. /\ ensure' \in [Ensures -> Commands]
        /\ ensure'[e] = h
        /\ \A x \in Ensures : x # e => ensure'[x] = ensure[x]
    BY EnsureTypes
  <1>2. EnsureTypeOK'
    BY <1>1, EnsureTypes DEF EnsureTypeOK, Mintings, Identities, Registrations, LockFiles, Commands
  <1>3. LockIsHeld'
    BY <1>1 DEF LockIsHeld, IdentityInv
  <1>4. LooksUpAToken'
    BY <1>1 DEF LooksUpAToken, IdentityInv
  <1>5. KnownIsMinted'
    BY <1>1 DEF KnownIsMinted, IdentityInv, Mined
  <1>6. KeysNameOne'
    BY DEF KeysNameOne, IdentityInv
  <1> QED
    BY <1>2, <1>3, <1>4, <1>5, <1>6 DEF IdentityInv

\* A step of a command outside the lock, which finds nothing new to the chain.
LEMMA FreeStepKeeps ==
  ASSUME IdentityInv, NEW e \in Ensures, NEW h \in Commands,
         ensure' = [ensure EXCEPT ![e] = h], UNCHANGED <<minting, lockFile, slips>>,
         identity' \in Identities, registration' \in Registrations, roster' \in SUBSET Tokens,
         ensure[e].stage \notin RegisteringStages, h.stage \notin RegisteringStages,
         h.stage \notin TakeoverStages,
         h.stage \in LookupStages => h.token \in Tokens,
         \A t \in h.found : Mined(t),
         identity'.status = "confirmed" => identity'.token \in Tokens /\ Mined(identity'.token),
         \A t \in roster' : Mined(t)
  PROVE  IdentityInv'
  <1>1. slips' = 0 => /\ slips = 0 /\ ~lockFile'.stale
                      /\ h.stage \in RegisteringStages <=> lockFile'.holder = e
                      /\ \A x \in Ensures : x # e => (lockFile'.holder = x <=> lockFile.holder = x)
    BY DEF IdentityInv, LockIsHeld
  <1>2. lockFile' \in LockFiles /\ slips' \in 0 .. MaxSlips
    BY EnsureTypes
  <1> QED
    BY <1>1, <1>2, CommandKeeps

\* A step of the command that holds the lock, and keeps it.
LEMMA HolderStepKeeps ==
  ASSUME IdentityInv, NEW e \in Ensures, NEW h \in Commands,
         ensure' = [ensure EXCEPT ![e] = h], UNCHANGED <<minting, lockFile>>,
         slips' \in 0 .. MaxSlips, slips' = 0 => slips = 0,
         identity' \in Identities, registration' \in Registrations, roster' \in SUBSET Tokens,
         ensure[e].stage \in RegisteringStages, h.stage \in RegisteringStages,
         h.stage \in LookupStages => h.token \in Tokens,
         h.found = ensure[e].found,
         identity'.status = "confirmed" => identity'.token \in Tokens /\ Mined(identity'.token),
         \A t \in roster' : Mined(t)
  PROVE  IdentityInv'
  <1>1. slips' = 0 => /\ slips = 0 /\ ~lockFile'.stale
                      /\ h.stage \in RegisteringStages <=> lockFile'.holder = e
                      /\ \A x \in Ensures : x # e => (lockFile'.holder = x <=> lockFile.holder = x)
    BY DEF IdentityInv, LockIsHeld
  <1>2. lockFile' \in LockFiles
    BY EnsureTypes
  <1>3. \A t \in h.found : Mined(t)
    BY DEF IdentityInv, KnownIsMinted
  <1>4. h.stage \notin TakeoverStages
    BY DEF TakeoverStages, RegisteringStages
  <1> QED
    BY <1>1, <1>2, <1>3, <1>4, CommandKeeps

-----------------------------------------------------------------------------
LEMMA BeginEnsureKeeps ==
  ASSUME IdentityInv, NEW e \in Ensures, BeginEnsure(e)
  PROVE  IdentityInv'
  <1>1. ensure[e].stage = "out" /\ UNCHANGED <<minting, identity, registration, lockFile, roster, slips>>
    BY DEF BeginEnsure, Out
  <1>2. \E h \in Commands : /\ ensure' = [ensure EXCEPT ![e] = h] /\ h.found = ensure[e].found
                            /\ h.stage \in {"resync", "finalize", "scan"}
                            /\ h.stage # "scan" => h.token \in Tokens
    <2>1. CASE identity.status = "confirmed"
      <3>1. With(e, "resync", identity.token)
        BY <2>1 DEF BeginEnsure
      <3>2. identity.token \in Tokens /\ identity.token \in AnyToken
        BY <2>1 DEF IdentityInv, KnownIsMinted, AnyToken
      <3>s. "resync" \in EnsureStages
        BY DEF EnsureStages
      <3>3. PICK h \in Commands : /\ ensure' = [ensure EXCEPT ![e] = h] /\ h.stage = "resync"
                                  /\ h.found = ensure[e].found /\ h.token = identity.token
        BY <3>1, <3>2, WithIs, <3>s
      <3> QED
        BY <3>2, <3>3
    <2>2. CASE identity.status # "confirmed" /\ registration.status = "submitted" /\ registration.token # NoToken
      <3>1. With(e, "finalize", registration.token)
        BY <2>2 DEF BeginEnsure
      <3>2. registration.token \in Tokens /\ registration.token \in AnyToken
        BY <2>2, EnsureTypes DEF Registrations, AnyToken
      <3>s. "finalize" \in EnsureStages
        BY DEF EnsureStages
      <3>3. PICK h \in Commands : /\ ensure' = [ensure EXCEPT ![e] = h] /\ h.stage = "finalize"
                                  /\ h.found = ensure[e].found /\ h.token = registration.token
        BY <3>1, <3>2, WithIs, <3>s
      <3> QED
        BY <3>2, <3>3
    <2>3. CASE identity.status # "confirmed" /\ ~(registration.status = "submitted" /\ registration.token # NoToken)
      <3>1. To(e, "scan")
        BY <2>3 DEF BeginEnsure
      <3>s. "scan" \in EnsureStages
        BY DEF EnsureStages
      <3>2. PICK h \in Commands : /\ ensure' = [ensure EXCEPT ![e] = h] /\ h.stage = "scan"
                                  /\ h.found = ensure[e].found /\ h.token = ensure[e].token
        BY <3>1, ToIs, <3>s
      <3> QED
        BY <3>2
    <2> QED
      BY <2>1, <2>2, <2>3
  <1>3. PICK h \in Commands : /\ ensure' = [ensure EXCEPT ![e] = h] /\ h.found = ensure[e].found
                              /\ h.stage \in {"resync", "finalize", "scan"}
                              /\ h.stage # "scan" => h.token \in Tokens
    BY <1>2
  <1>4. \A t \in h.found : Mined(t)
    BY <1>3 DEF IdentityInv, KnownIsMinted
  <1>5. /\ identity' \in Identities /\ registration' \in Registrations /\ roster' \in SUBSET Tokens
        /\ identity'.status = "confirmed" => identity'.token \in Tokens /\ Mined(identity'.token)
        /\ \A t \in roster' : Mined(t)
    BY <1>1, EnsureTypes DEF IdentityInv, KnownIsMinted
  <1> QED
    BY <1>1, <1>3, <1>4, <1>5, FreeStepKeeps DEF RegisteringStages, TakeoverStages, LookupStages

LEMMA SyncsAddTheToken ==
  ASSUME IdentityInv, NEW t \in Tokens, SyncIdentity(t) \/ UNCHANGED roster
  PROVE  roster' \in SUBSET Tokens /\ \A u \in roster' : Mined(u)
  BY EnsureTypes DEF SyncIdentity, IdentityInv, KnownIsMinted

LEMMA ConfirmedIs ==
  ASSUME NEW t \in Tokens, Mined(t), Confirmed(t)
  PROVE  /\ identity' \in Identities
         /\ identity'.status = "confirmed" => identity'.token \in Tokens /\ Mined(identity'.token)
  BY DEF Confirmed, Identities

LEMMA KeptIdentity ==
  ASSUME IdentityInv, UNCHANGED identity
  PROVE  /\ identity' \in Identities
         /\ identity'.status = "confirmed" => identity'.token \in Tokens /\ Mined(identity'.token)
  BY EnsureTypes DEF IdentityInv, KnownIsMinted

LEMMA LookedUp ==
  ASSUME IdentityInv, NEW e \in Ensures, ensure[e].stage \in LookupStages
  PROVE  ensure[e].token \in Tokens
  BY DEF IdentityInv, LooksUpAToken

LEMMA FoundIsMinted ==
  ASSUME IdentityInv, NEW e \in Ensures
  PROVE  /\ \A t \in ensure[e].found : Mined(t)
         /\ \A t \in roster : Mined(t)
         /\ ensure[e].found \subseteq Tokens /\ roster \subseteq Tokens
  BY EnsureTypes DEF IdentityInv, KnownIsMinted, Commands

LEMMA ResyncKeeps ==
  ASSUME IdentityInv, NEW e \in Ensures, Resync(e)
  PROVE  IdentityInv'
  <1> DEFINE t == ensure[e].token
  <1>1. ensure[e].stage = "resync" /\ Over(e) /\ UNCHANGED <<minting, registration, lockFile, slips>>
    BY DEF Resync
  <1>2. t \in Tokens
    BY <1>1, LookedUp DEF LookupStages
  <1>3. /\ SyncIdentity(t) \/ UNCHANGED roster
        /\ (Mined(t) /\ Confirmed(t)) \/ UNCHANGED identity
    BY DEF Resync, Syncs, SyncsNot, SyncIdentity
  <1>4. /\ identity' \in Identities
        /\ identity'.status = "confirmed" => identity'.token \in Tokens /\ Mined(identity'.token)
    BY <1>2, <1>3, ConfirmedIs, KeptIdentity
  <1>5. roster' \in SUBSET Tokens /\ \A u \in roster' : Mined(u)
    BY <1>2, <1>3, SyncsAddTheToken
  <1>6. PICK h \in Commands : ensure' = [ensure EXCEPT ![e] = h] /\ h.stage = "out" /\ h.found = {}
    BY <1>1, OverIs
  <1>7. registration' \in Registrations
    BY <1>1, EnsureTypes
  <1> QED
    BY <1>1, <1>4, <1>5, <1>6, <1>7, FreeStepKeeps DEF RegisteringStages, TakeoverStages, LookupStages

LEMMA FinalizeKeeps ==
  ASSUME IdentityInv, NEW e \in Ensures, Finalize(e)
  PROVE  IdentityInv'
  <1> DEFINE t == ensure[e].token
  <1>1. ensure[e].stage = "finalize" /\ UNCHANGED <<minting, lockFile, roster, slips>>
    BY DEF Finalize
  <1>2. t \in Tokens
    BY <1>1, LookedUp DEF LookupStages
  <1>3. /\ (Mined(t) /\ Confirmed(t)) \/ UNCHANGED identity
        /\ \/ registration' = [status |-> "confirmed", token |-> t]
           \/ registration' = [status |-> "failed", token |-> t]
           \/ UNCHANGED registration
    BY DEF Finalize, ReceiptConfirms, Owned
  <1>4. /\ identity' \in Identities
        /\ identity'.status = "confirmed" => identity'.token \in Tokens /\ Mined(identity'.token)
    BY <1>2, <1>3, ConfirmedIs, KeptIdentity
  <1>5. roster' \in SUBSET Tokens /\ \A u \in roster' : Mined(u)
    BY <1>1, EnsureTypes, FoundIsMinted
  <1>6. registration' \in Registrations
    BY <1>2, <1>3, EnsureTypes DEF Registrations
  <1>7. \E h \in Commands : /\ ensure' = [ensure EXCEPT ![e] = h] /\ h.stage \in {"sync", "scan", "out"}
                            /\ h.found \in {ensure[e].found, {}} /\ (h.stage = "sync" => h.token = t)
    <2>1. To(e, "sync") \/ To(e, "scan") \/ Over(e)
      BY DEF Finalize
    <2>2. "sync" \in EnsureStages /\ "scan" \in EnsureStages
      BY DEF EnsureStages
    <2>3. CASE To(e, "sync")
      BY <2>2, <2>3, ToIs
    <2>4. CASE To(e, "scan")
      BY <2>2, <2>4, ToIs
    <2>5. CASE Over(e)
      BY <2>5, OverIs
    <2> QED
      BY <2>1, <2>3, <2>4, <2>5
  <1>8. PICK h \in Commands : /\ ensure' = [ensure EXCEPT ![e] = h] /\ h.stage \in {"sync", "scan", "out"}
                              /\ h.found \in {ensure[e].found, {}} /\ (h.stage = "sync" => h.token = t)
    BY <1>7
  <1>9. \A u \in h.found : Mined(u)
    BY <1>8, FoundIsMinted
  <1> QED
    BY <1>1, <1>2, <1>4, <1>5, <1>6, <1>8, <1>9, FreeStepKeeps DEF RegisteringStages, TakeoverStages, LookupStages

LEMMA SyncFinalizedKeeps ==
  ASSUME IdentityInv, NEW e \in Ensures, SyncFinalized(e)
  PROVE  IdentityInv'
  <1> DEFINE t == ensure[e].token
  <1>1. ensure[e].stage = "sync" /\ Over(e) /\ UNCHANGED <<minting, registration, lockFile, slips>>
    BY DEF SyncFinalized
  <1>2. t \in Tokens
    BY <1>1, LookedUp DEF LookupStages
  <1>3. /\ SyncIdentity(t) \/ UNCHANGED roster
        /\ identity' = [identity EXCEPT !.unsynced = TRUE] \/ UNCHANGED identity
    BY DEF SyncFinalized, SyncsNot
  <1>4. /\ identity' \in Identities
        /\ identity'.status = identity.status /\ identity'.token = identity.token
    BY <1>3, EnsureTypes DEF Identities
  <1>5. identity'.status = "confirmed" => identity'.token \in Tokens /\ Mined(identity'.token)
    BY <1>4 DEF IdentityInv, KnownIsMinted
  <1>6. roster' \in SUBSET Tokens /\ \A u \in roster' : Mined(u)
    BY <1>2, <1>3, SyncsAddTheToken
  <1>7. PICK h \in Commands : ensure' = [ensure EXCEPT ![e] = h] /\ h.stage = "out" /\ h.found = {}
    BY <1>1, OverIs
  <1>8. registration' \in Registrations
    BY <1>1, EnsureTypes
  <1> QED
    BY <1>1, <1>4, <1>5, <1>6, <1>7, <1>8, FreeStepKeeps DEF RegisteringStages, TakeoverStages, LookupStages

LEMMA ScanKeeps ==
  ASSUME IdentityInv, NEW e \in Ensures, Scan(e)
  PROVE  IdentityInv'
  <1> DEFINE found == IF Owned = {} THEN {} ELSE {t \in Tokens \ Older : Mined(t)} \cap Owned
  <1>1. ensure[e].stage = "scan" /\ UNCHANGED <<minting, identity, registration, lockFile, roster, slips>>
    BY DEF Scan
  <1>2. found \in SUBSET Tokens /\ \A t \in found : Mined(t)
    OBVIOUS
  <1>3. \/ Over(e)
        \/ ensure' = [ensure EXCEPT ![e].stage = "roster", ![e].found = found]
    BY DEF Scan
  <1>4. ASSUME ensure' = [ensure EXCEPT ![e].stage = "roster", ![e].found = found]
        PROVE  \E h \in Commands : /\ ensure' = [ensure EXCEPT ![e] = h]
                                   /\ h.stage = "roster" /\ h.found = found
    <2> HIDE DEF found
    <2>1. ensure \in [Ensures -> Commands] /\ ensure[e] \in Commands
      BY EnsureTypes
    <2>2. PICK h : h = [stage |-> "roster", found |-> found, token |-> ensure[e].token]
      OBVIOUS
    <2>3. h \in Commands /\ h.stage = "roster" /\ h.found = found
      BY <1>2, <2>1, <2>2 DEF Commands, EnsureStages
    <2>4. ensure = [x \in Ensures |-> ensure[x]]
      BY <2>1
    <2>5. ensure[e] = [stage |-> ensure[e].stage, found |-> ensure[e].found, token |-> ensure[e].token]
      BY <2>1 DEF Commands
    <2>6. ensure'[e] = h
      BY <1>4, <2>1, <2>2, <2>5
    <2>7. ensure' = [ensure EXCEPT ![e] = h]
      BY <1>4, <2>1, <2>4, <2>6
    <2> QED
      BY <2>3, <2>7
  <1>5. PICK h \in Commands : /\ ensure' = [ensure EXCEPT ![e] = h] /\ h.stage \in {"out", "roster"}
                              /\ h.found \in {found, {}}
    BY <1>3, <1>4, OverIs
  <1>6. \A t \in h.found : Mined(t)
    BY <1>2, <1>5
  <1>7. registration' \in Registrations /\ roster' \in SUBSET Tokens /\ \A u \in roster' : Mined(u)
    BY <1>1, EnsureTypes, FoundIsMinted
  <1> QED
    BY <1>1, <1>5, <1>6, <1>7, KeptIdentity, FreeStepKeeps DEF RegisteringStages, TakeoverStages, LookupStages

\* A command that goes from free stages to the lock.
LEMMA MergeRosterKeeps ==
  ASSUME IdentityInv, NEW e \in Ensures, MergeRoster(e)
  PROVE  IdentityInv'
  <1>1. ensure[e].stage = "roster" /\ UNCHANGED <<minting, registration, lockFile, roster, slips>>
    BY DEF MergeRoster
  <1>2. PICK entries \in {{}, roster} :
          /\ \/ \E t \in ensure[e].found \cup entries : Confirmed(t)
             \/ UNCHANGED identity
          /\ Over(e) \/ To(e, "lock")
    BY DEF MergeRoster
  <1>3. \A t \in ensure[e].found \cup entries : t \in Tokens /\ Mined(t)
    BY FoundIsMinted
  <1>4. /\ identity' \in Identities
        /\ identity'.status = "confirmed" => identity'.token \in Tokens /\ Mined(identity'.token)
    BY <1>2, <1>3, ConfirmedIs, KeptIdentity
  <1>5. \E h \in Commands : /\ ensure' = [ensure EXCEPT ![e] = h] /\ h.stage \in {"out", "lock"}
                            /\ h.found \in {ensure[e].found, {}}
    <2>1. "lock" \in EnsureStages
      BY DEF EnsureStages
    <2>2. CASE To(e, "lock")
      BY <2>1, <2>2, ToIs
    <2>3. CASE Over(e)
      BY <2>3, OverIs
    <2> QED
      BY <1>2, <2>2, <2>3
  <1>6. PICK h \in Commands : /\ ensure' = [ensure EXCEPT ![e] = h] /\ h.stage \in {"out", "lock"}
                              /\ h.found \in {ensure[e].found, {}}
    BY <1>5
  <1>7. \A t \in h.found : Mined(t)
    BY <1>6, FoundIsMinted
  <1>8. registration' \in Registrations /\ roster' \in SUBSET Tokens /\ \A u \in roster' : Mined(u)
    BY <1>1, EnsureTypes, FoundIsMinted
  <1> QED
    BY <1>1, <1>4, <1>6, <1>7, <1>8, FreeStepKeeps DEF RegisteringStages, TakeoverStages, LookupStages

-----------------------------------------------------------------------------
\* The lock is created, or passed on when it is stale.
LEMMA GainsTheLock ==
  ASSUME IdentityInv, NEW e \in Ensures, Creatable(e), To(e, "write"),
         ensure[e].stage \notin RegisteringStages,
         lockFile' = [holder |-> e, stale |-> FALSE],
         UNCHANGED <<minting, identity, registration, roster, slips>>
  PROVE  IdentityInv'
  <1>s. "write" \in EnsureStages
    BY DEF EnsureStages
  <1>1. PICK h \in Commands : /\ ensure' = [ensure EXCEPT ![e] = h] /\ h.stage = "write"
                              /\ h.found = ensure[e].found
    BY ToIs, <1>s
  <1>2. lockFile' \in LockFiles /\ lockFile'.holder = e /\ ~lockFile'.stale
    BY DEF LockFiles
  <1>3. registration' \in Registrations /\ roster' \in SUBSET Tokens /\ \A u \in roster' : Mined(u)
    BY EnsureTypes, FoundIsMinted
  <1>4. \A t \in h.found : Mined(t)
    BY <1>1, FoundIsMinted
  <1>5. slips' = 0 => /\ slips = 0 /\ ~lockFile'.stale
                      /\ \A x \in Ensures : x # e => (lockFile'.holder = x <=> lockFile.holder = x)
    BY <1>2, EnsureAssumption DEF Creatable
  <1>6. h.stage \in RegisteringStages /\ h.stage \notin TakeoverStages /\ h.stage \notin LookupStages
    BY <1>1 DEF RegisteringStages, TakeoverStages, LookupStages
  <1>7. slips' \in 0 .. MaxSlips
    BY EnsureTypes
  <1> QED
    BY <1>1, <1>2, <1>3, <1>4, <1>5, <1>6, <1>7, KeptIdentity, CommandKeeps

\* The lock is another's: the command gives up.
LEMMA GivesUp ==
  ASSUME IdentityInv, NEW e \in Ensures, Over(e), ensure[e].stage \notin RegisteringStages,
         UNCHANGED <<minting, identity, registration, lockFile, roster, slips>>
  PROVE  IdentityInv'
  <1>1. PICK h \in Commands : ensure' = [ensure EXCEPT ![e] = h] /\ h.stage = "out" /\ h.found = {}
    BY OverIs
  <1>2. registration' \in Registrations /\ roster' \in SUBSET Tokens /\ \A u \in roster' : Mined(u)
    BY EnsureTypes, FoundIsMinted
  <1> QED
    BY <1>1, <1>2, KeptIdentity, FreeStepKeeps DEF RegisteringStages, TakeoverStages, LookupStages

\* After a slip the lock says nothing.
LEMMA SlippedKeeps ==
  ASSUME IdentityInv, NEW e \in Ensures, NEW h \in Commands, ensure' = [ensure EXCEPT ![e] = h],
         slips' \in 0 .. MaxSlips, slips' # 0, lockFile' \in LockFiles,
         UNCHANGED <<minting, identity, registration, roster>>,
         h.stage \notin LookupStages, h.found \in {ensure[e].found, {}}
  PROVE  IdentityInv'
  <1>1. registration' \in Registrations /\ roster' \in SUBSET Tokens /\ \A u \in roster' : Mined(u)
    BY EnsureTypes, FoundIsMinted
  <1>2. \A t \in h.found : Mined(t)
    BY FoundIsMinted
  <1> QED
    BY <1>1, <1>2, KeptIdentity, CommandKeeps

LEMMA StaleHasSlipped ==
  ASSUME IdentityInv, NEW e \in Ensures, lockFile.stale \/ ensure[e].stage \in TakeoverStages
  PROVE  slips # 0
  BY DEF IdentityInv, LockIsHeld

LEMMA AcquireLockKeeps ==
  ASSUME IdentityInv, NEW e \in Ensures, AcquireLock(e)
  PROVE  IdentityInv'
  <1>1. ensure[e].stage = "lock" /\ UNCHANGED <<minting, identity, registration, roster, slips>>
    BY DEF AcquireLock
  <1>2. ensure[e].stage \notin RegisteringStages
    BY <1>1 DEF RegisteringStages
  <1>3. CASE Creatable(e) /\ lockFile' = [holder |-> e, stale |-> FALSE] /\ To(e, "write")
    BY <1>1, <1>2, <1>3, GainsTheLock
  <1>4. CASE UNCHANGED lockFile /\ Over(e)
    BY <1>1, <1>2, <1>4, GivesUp
  <1>5. CASE UNCHANGED lockFile /\ lockFile.stale /\ To(e, "stale")
    <2>s. "stale" \in EnsureStages
      BY DEF EnsureStages
    <2>1. PICK h \in Commands : /\ ensure' = [ensure EXCEPT ![e] = h] /\ h.stage = "stale"
                                /\ h.found = ensure[e].found
      BY <1>5, ToIs, <2>s
    <2>2. slips' # 0 /\ slips' \in 0 .. MaxSlips /\ lockFile' \in LockFiles
      BY <1>1, <1>5, StaleHasSlipped, EnsureTypes
    <2> QED
      BY <1>1, <2>1, <2>2, SlippedKeeps DEF LookupStages
  <1> QED
    BY <1>3, <1>4, <1>5 DEF AcquireLock

LEMMA UnlinkStaleKeeps ==
  ASSUME IdentityInv, NEW e \in Ensures, UnlinkStale(e)
  PROVE  IdentityInv'
  <1>1. /\ ensure[e].stage = "stale" /\ lockFile' = Absent /\ To(e, "retry lock")
        /\ UNCHANGED <<minting, identity, registration, roster, slips>>
    BY DEF UnlinkStale
  <1>s. "retry lock" \in EnsureStages
    BY DEF EnsureStages
  <1>2. PICK h \in Commands : /\ ensure' = [ensure EXCEPT ![e] = h] /\ h.stage = "retry lock"
                              /\ h.found = ensure[e].found
    <2>1. To(e, "retry lock")
      BY <1>1
    <2>2. \E h \in Commands : /\ ensure' = [ensure EXCEPT ![e] = h] /\ h.stage = "retry lock"
                              /\ h.found = ensure[e].found /\ h.token = ensure[e].token
      BY <2>1, <1>s, ToIs
    <2> QED
      BY <2>2
  <1>3. slips' # 0 /\ slips' \in 0 .. MaxSlips
    BY <1>1, StaleHasSlipped, EnsureTypes DEF TakeoverStages
  <1>4. lockFile' \in LockFiles
    BY <1>1 DEF Absent, LockFiles
  <1> QED
    BY <1>1, <1>2, <1>3, <1>4, SlippedKeeps DEF LookupStages

LEMMA RetryLockKeeps ==
  ASSUME IdentityInv, NEW e \in Ensures, RetryLock(e)
  PROVE  IdentityInv'
  <1>1. ensure[e].stage = "retry lock" /\ UNCHANGED <<minting, identity, registration, roster, slips>>
    BY DEF RetryLock
  <1>2. ensure[e].stage \notin RegisteringStages
    BY <1>1 DEF RegisteringStages
  <1>3. CASE Creatable(e) /\ lockFile' = [holder |-> e, stale |-> FALSE] /\ To(e, "write")
    BY <1>1, <1>2, <1>3, GainsTheLock
  <1>4. CASE UNCHANGED lockFile /\ Over(e)
    BY <1>1, <1>2, <1>4, GivesUp
  <1> QED
    BY <1>3, <1>4 DEF RetryLock

LEMMA LockAgesKeeps ==
  ASSUME IdentityInv, LockAges
  PROVE  IdentityInv'
  <1>1. /\ lockFile' = [lockFile EXCEPT !.stale = TRUE] /\ Slip
        /\ UNCHANGED <<minting, identity, registration, roster, ensure>>
    BY DEF LockAges
  <1>2. slips' \in 0 .. MaxSlips /\ slips' # 0
    BY <1>1, EnsureTypes, EnsureAssumption DEF Slip
  <1>3. lockFile' \in LockFiles
    BY <1>1, EnsureTypes DEF LockFiles
  <1>4. EnsureTypeOK'
    BY <1>1, <1>2, <1>3 DEF IdentityInv, EnsureTypeOK, LockFiles
  <1>5. LockIsHeld'
    BY <1>2 DEF LockIsHeld
  <1>6. LooksUpAToken' /\ KnownIsMinted' /\ KeysNameOne'
    BY <1>1 DEF IdentityInv, LooksUpAToken, KnownIsMinted, KeysNameOne, Mined
  <1> QED
    BY <1>4, <1>5, <1>6 DEF IdentityInv

LEMMA WriteSubmittedKeeps ==
  ASSUME IdentityInv, NEW e \in Ensures, WriteSubmitted(e)
  PROVE  IdentityInv'
  <1>1. /\ ensure[e].stage = "write" /\ registration' = [status |-> "submitted", token |-> NoToken]
        /\ To(e, "register") /\ UNCHANGED <<minting, identity, lockFile, roster, slips>>
    BY DEF WriteSubmitted
  <1>s. "register" \in EnsureStages
    BY DEF EnsureStages
  <1>2. PICK h \in Commands : /\ ensure' = [ensure EXCEPT ![e] = h] /\ h.stage = "register"
                              /\ h.found = ensure[e].found
    BY <1>1, ToIs, <1>s
  <1>3. registration' \in Registrations
    BY <1>1 DEF Registrations
  <1>4. roster' \in SUBSET Tokens /\ slips' \in 0 .. MaxSlips /\ \A u \in roster' : Mined(u)
    BY <1>1, EnsureTypes, FoundIsMinted
  <1> QED
    BY <1>1, <1>2, <1>3, <1>4, KeptIdentity, HolderStepKeeps DEF RegisteringStages, LookupStages

LEMMA RegisterRefusedKeeps ==
  ASSUME IdentityInv, NEW e \in Ensures, RegisterRefused(e)
  PROVE  IdentityInv'
  <1>1. /\ ensure[e].stage = "register"
        /\ registration' \in {registration, [status |-> "failed", token |-> NoToken]}
        /\ To(e, "release") /\ UNCHANGED <<minting, identity, lockFile, roster, slips>>
    BY DEF RegisterRefused
  <1>s. "release" \in EnsureStages
    BY DEF EnsureStages
  <1>2. PICK h \in Commands : /\ ensure' = [ensure EXCEPT ![e] = h] /\ h.stage = "release"
                              /\ h.found = ensure[e].found
    BY <1>1, ToIs, <1>s
  <1>3. registration' \in Registrations
    BY <1>1, EnsureTypes DEF Registrations
  <1>4. roster' \in SUBSET Tokens /\ slips' \in 0 .. MaxSlips /\ \A u \in roster' : Mined(u)
    BY <1>1, EnsureTypes, FoundIsMinted
  <1> QED
    BY <1>1, <1>2, <1>3, <1>4, KeptIdentity, HolderStepKeeps DEF RegisteringStages, LookupStages

LEMMA StoreIdentityHashKeeps ==
  ASSUME IdentityInv, NEW e \in Ensures, StoreIdentityHash(e)
  PROVE  IdentityInv'
  <1> DEFINE t == ensure[e].token
             s == IF t = NoToken THEN "release" ELSE "sync new"
  <1>1. /\ ensure[e].stage = "store hash"
        /\ registration' = [status |-> "submitted", token |-> t]
        /\ identity' = [status |-> "pending", token |-> t, unsynced |-> FALSE]
        /\ To(e, s) /\ UNCHANGED <<minting, lockFile, roster, slips>>
    BY DEF StoreIdentityHash
  <1>2. t \in Tokens \cup {NoToken}
    BY EnsureTypes DEF Commands
  <1>3. s \in EnsureStages
    BY DEF EnsureStages
  <1>4. PICK h \in Commands : /\ ensure' = [ensure EXCEPT ![e] = h] /\ h.stage = s
                              /\ h.found = ensure[e].found /\ h.token = t
    BY <1>1, <1>3, ToIs
  <1>5. h.stage \in RegisteringStages /\ (h.stage \in LookupStages => h.token \in Tokens)
    BY <1>2, <1>4 DEF RegisteringStages, LookupStages
  <1>6. registration' \in Registrations /\ identity' \in Identities /\ identity'.status # "confirmed"
    BY <1>1, <1>2 DEF Registrations, Identities
  <1>7. roster' \in SUBSET Tokens /\ slips' \in 0 .. MaxSlips /\ \A u \in roster' : Mined(u)
    BY <1>1, EnsureTypes, FoundIsMinted
  <1> QED
    BY <1>1, <1>4, <1>5, <1>6, <1>7, HolderStepKeeps DEF RegisteringStages

LEMMA SyncNewKeeps ==
  ASSUME IdentityInv, NEW e \in Ensures, SyncNew(e)
  PROVE  IdentityInv'
  <1> DEFINE t == ensure[e].token
  <1>1. /\ ensure[e].stage = "sync new" /\ To(e, "release") /\ UNCHANGED <<minting, lockFile, slips>>
    BY DEF SyncNew
  <1>2. t \in Tokens
    BY <1>1, LookedUp DEF LookupStages
  <1>3. /\ SyncIdentity(t) \/ UNCHANGED roster
        /\ (Mined(t) /\ Confirmed(t)) \/ UNCHANGED identity
        /\ registration' = [status |-> "confirmed", token |-> t] \/ UNCHANGED registration
    BY DEF SyncNew, Syncs, SyncsNot, SyncIdentity
  <1>4. /\ identity' \in Identities
        /\ identity'.status = "confirmed" => identity'.token \in Tokens /\ Mined(identity'.token)
    BY <1>2, <1>3, ConfirmedIs, KeptIdentity
  <1>5. roster' \in SUBSET Tokens /\ \A u \in roster' : Mined(u)
    BY <1>2, <1>3, SyncsAddTheToken
  <1>s. "release" \in EnsureStages
    BY DEF EnsureStages
  <1>6. PICK h \in Commands : /\ ensure' = [ensure EXCEPT ![e] = h] /\ h.stage = "release"
                              /\ h.found = ensure[e].found
    <2>1. To(e, "release")
      BY <1>1
    <2>2. \E h \in Commands : /\ ensure' = [ensure EXCEPT ![e] = h] /\ h.stage = "release"
                              /\ h.found = ensure[e].found /\ h.token = ensure[e].token
      BY <2>1, <1>s, ToIs
    <2> QED
      BY <2>2
  <1>7. slips' \in 0 .. MaxSlips
    BY <1>1, EnsureTypes
  <1>8. [status |-> "confirmed", token |-> t] \in Registrations
    BY <1>2 DEF Registrations
  <1>9. registration' \in Registrations
    BY <1>3, <1>8, EnsureTypes
  <1> QED
    BY <1>1, <1>4, <1>5, <1>6, <1>7, <1>9, HolderStepKeeps DEF RegisteringStages, LookupStages

LEMMA ReleaseLockKeeps ==
  ASSUME IdentityInv, NEW e \in Ensures, ReleaseLock(e)
  PROVE  IdentityInv'
  <1>1. /\ ensure[e].stage = "release" /\ lockFile' = Absent /\ Over(e)
        /\ UNCHANGED <<minting, identity, registration, roster, slips>>
    BY DEF ReleaseLock
  <1>2. PICK h \in Commands : ensure' = [ensure EXCEPT ![e] = h] /\ h.stage = "out" /\ h.found = {}
    BY <1>1, OverIs
  <1>3. lockFile' \in LockFiles /\ lockFile'.holder = NoEnsure /\ ~lockFile'.stale
    BY <1>1 DEF Absent, LockFiles
  <1>4. slips' = 0 => /\ slips = 0 /\ ~lockFile'.stale
                      /\ h.stage \in RegisteringStages <=> lockFile'.holder = e
                      /\ \A x \in Ensures : x # e => (lockFile'.holder = x <=> lockFile.holder = x)
    BY <1>1, <1>2, <1>3, EnsureAssumption DEF IdentityInv, LockIsHeld, RegisteringStages
  <1>5. /\ registration' \in Registrations /\ roster' \in SUBSET Tokens /\ slips' \in 0 .. MaxSlips
        /\ \A u \in roster' : Mined(u)
    BY <1>1, EnsureTypes, FoundIsMinted
  <1>6. h.stage \notin TakeoverStages /\ h.stage \notin LookupStages
    BY <1>2 DEF TakeoverStages, LookupStages
  <1> QED
    BY <1>1, <1>2, <1>3, <1>4, <1>5, <1>6, KeptIdentity, CommandKeeps

LEMMA EnsureCrashKeeps ==
  ASSUME IdentityInv, NEW e \in Ensures, EnsureCrash(e)
  PROVE  IdentityInv'
  <1>1. Slip /\ Over(e) /\ UNCHANGED <<minting, identity, registration, lockFile, roster>>
    BY DEF EnsureCrash
  <1>2. PICK h \in Commands : ensure' = [ensure EXCEPT ![e] = h] /\ h.stage = "out" /\ h.found = {}
    BY <1>1, OverIs
  <1>3. slips' \in 0 .. MaxSlips /\ slips' # 0 /\ lockFile' \in LockFiles
    BY <1>1, EnsureTypes, EnsureAssumption DEF Slip
  <1> QED
    BY <1>1, <1>2, <1>3, SlippedKeeps DEF LookupStages

-----------------------------------------------------------------------------
LEMMA WithIsOneOf ==
  ASSUME IdentityInv, NEW e \in Ensures, NEW S, NEW s \in EnsureStages, s \in S,
         NEW t \in AnyToken, With(e, s, t)
  PROVE  \E h \in Commands : /\ ensure' = [ensure EXCEPT ![e] = h]
                             /\ h.stage \in S /\ h.found = ensure[e].found
  <1>1. \E h \in Commands : /\ ensure' = [ensure EXCEPT ![e] = h] /\ h.stage = s
                            /\ h.found = ensure[e].found /\ h.token = t
    BY WithIs
  <1> QED
    BY <1>1

\* The wallet service: a key names the registration it was first sent with.
LEMMA RegisterKeeps ==
  ASSUME IdentityInv, NEW e \in Ensures, Register(e)
  PROVE  IdentityInv'
  <1>1. ensure[e].stage = "register" /\ UNCHANGED <<identity, registration, lockFile, roster>>
    BY DEF Register
  <1>2. PICK t \in Tokens :
          /\ \/ UNCHANGED minting
             \/ /\ SameRegistration(e) = {} /\ minting[t].state = "unsent"
                /\ minting' = [minting EXCEPT ![t] = [state |-> "live", key |-> MetaOf[e], ours |-> FALSE]]
          /\ \/ With(e, "store hash", t) /\ UNCHANGED slips
             \/ Slip /\ \E s \in {"store hash", "release"} : With(e, s, NoToken)
    BY DEF Register
  <1>3. slips' \in 0 .. MaxSlips /\ (slips' = 0 => slips = 0)
    <2>1. slips \in 0 .. MaxSlips
      BY EnsureTypes
    <2>2. UNCHANGED slips \/ Slip
      BY <1>2
    <2> QED
      BY <2>1, <2>2, EnsureAssumption DEF Slip
  <1>4. \E h \in Commands : /\ ensure' = [ensure EXCEPT ![e] = h]
                            /\ h.stage \in {"store hash", "release"} /\ h.found = ensure[e].found
    <2>1. "store hash" \in EnsureStages /\ "release" \in EnsureStages
      BY DEF EnsureStages
    <2>2. \/ With(e, "store hash", t) \/ With(e, "store hash", NoToken) \/ With(e, "release", NoToken)
      BY <1>2
    <2>3. t \in AnyToken /\ NoToken \in AnyToken
      BY DEF AnyToken
    <2>4. "store hash" \in {"store hash", "release"} /\ "release" \in {"store hash", "release"}
      OBVIOUS
    <2>5. CASE With(e, "store hash", t)
      BY <2>1, <2>4, <2>5, <2>3, WithIsOneOf
    <2>6. CASE With(e, "store hash", NoToken)
      BY <2>1, <2>4, <2>6, <2>3, WithIsOneOf
    <2>7. CASE With(e, "release", NoToken)
      BY <2>1, <2>4, <2>7, <2>3, WithIsOneOf
    <2> QED
      BY <2>2, <2>5, <2>6, <2>7
  <1>5. PICK h \in Commands : /\ ensure' = [ensure EXCEPT ![e] = h]
                              /\ h.stage \in {"store hash", "release"} /\ h.found = ensure[e].found
    BY <1>4
  <1>6. /\ ensure' \in [Ensures -> Commands] /\ ensure'[e] = h
        /\ \A x \in Ensures : x # e => ensure'[x] = ensure[x]
    BY <1>5, EnsureTypes
  <1>7. /\ minting' \in [Tokens -> Mintings]
        /\ \A u \in Tokens : Mined(u) => Mined(u)'
        /\ KeysNameOne'
    <2>1. CASE UNCHANGED minting
      BY <2>1, EnsureTypes DEF Mined, KeysNameOne, IdentityInv
    <2>2. CASE /\ SameRegistration(e) = {} /\ minting[t].state = "unsent"
               /\ minting' = [minting EXCEPT ![t] = [state |-> "live", key |-> MetaOf[e], ours |-> FALSE]]
      <3>1. PICK r : r = [state |-> "live", key |-> MetaOf[e], ours |-> FALSE]
        OBVIOUS
      <3>2. r \in Mintings /\ r.key = MetaOf[e]
        BY <3>1, EnsureAssumption DEF Mintings
      <3>3. /\ minting' \in [Tokens -> Mintings] /\ minting'[t] = r
            /\ \A u \in Tokens : u # t => minting'[u] = minting[u]
        BY <2>2, <3>1, <3>2, EnsureTypes
      <3>4. \A u \in Tokens : minting[u].key # r.key
        BY <2>2, <3>2 DEF SameRegistration
      <3>5. \A u \in Tokens : Mined(u) => Mined(u)'
        BY <2>2, <3>3 DEF Mined
      <3>6. KeysNameOne'
        BY <3>3, <3>4 DEF KeysNameOne, IdentityInv
      <3> QED
        BY <3>3, <3>5, <3>6
    <2> QED
      BY <1>2, <2>1, <2>2
  <1>8. EnsureTypeOK'
    BY <1>1, <1>3, <1>6, <1>7, EnsureTypes
    DEF EnsureTypeOK, Mintings, Identities, Registrations, LockFiles, Commands
  <1>9. LockIsHeld'
    BY <1>1, <1>3, <1>5, <1>6 DEF LockIsHeld, IdentityInv, RegisteringStages, TakeoverStages
  <1>10. LooksUpAToken'
    BY <1>5, <1>6 DEF LooksUpAToken, IdentityInv, LookupStages
  <1>11. KnownIsMinted'
    <2>1. /\ identity' = identity /\ roster' = roster
          /\ \A x \in Ensures : ensure'[x].found = ensure[x].found
      BY <1>1, <1>5, <1>6
    <2>2. \A x \in Ensures : ensure[x].found \subseteq Tokens
      BY FoundIsMinted
    <2> QED
      BY <1>7, <2>1, <2>2, FoundIsMinted DEF KnownIsMinted, IdentityInv
  <1> QED
    BY <1>7, <1>8, <1>9, <1>10, <1>11 DEF IdentityInv

\* The chain: what was minted stays minted, whoever owns it, under its key.
LEMMA ChainStepKeeps ==
  ASSUME IdentityInv, NEW t \in Tokens, NEW r \in Mintings, minting' = [minting EXCEPT ![t] = r],
         r.key = minting[t].key, Mined(t) => r.state = "minted",
         UNCHANGED <<identity, registration, lockFile, roster, ensure, slips>>
  PROVE  IdentityInv'
  <1>1. /\ minting' \in [Tokens -> Mintings] /\ minting'[t] = r
        /\ \A u \in Tokens : u # t => minting'[u] = minting[u]
    BY EnsureTypes
  <1>2. \A u \in Tokens : Mined(u) => Mined(u)'
    BY <1>1 DEF Mined
  <1>3. \A u \in Tokens : minting'[u].key = minting[u].key
    BY <1>1
  <1>4. KeysNameOne'
    BY <1>3 DEF KeysNameOne, IdentityInv
  <1>5. EnsureTypeOK'
    BY <1>1, EnsureTypes DEF EnsureTypeOK, Mintings, Identities, Registrations, LockFiles, Commands
  <1>6. LockIsHeld' /\ LooksUpAToken'
    BY DEF LockIsHeld, LooksUpAToken, IdentityInv
  <1>7. KnownIsMinted'
    <2>1. \A u \in roster : u \in Tokens /\ Mined(u)
      BY EnsureTypes DEF KnownIsMinted, IdentityInv
    <2>4. \A x \in Ensures : \A u \in ensure[x].found : u \in Tokens /\ Mined(u)
      <3>1. \A x \in Ensures : ensure[x].found \subseteq Tokens
        BY EnsureTypes DEF Commands
      <3> QED
        BY <3>1 DEF KnownIsMinted, IdentityInv
    <2>2. identity.status = "confirmed" => identity.token \in Tokens /\ Mined(identity.token)
      BY DEF KnownIsMinted, IdentityInv
    <2>3. UNCHANGED <<identity, roster, ensure>>
      OBVIOUS
    <2> HIDE DEF Mined
    <2> QED
      BY <1>2, <2>1, <2>2, <2>3, <2>4 DEF KnownIsMinted
  <1> QED
    BY <1>4, <1>5, <1>6, <1>7 DEF IdentityInv

LEMMA RegistrationMinedKeeps ==
  ASSUME IdentityInv, NEW t \in Tokens, RegistrationMined(t)
  PROVE  IdentityInv'
  <1>1. minting[t].state = "live" /\ UNCHANGED <<identity, registration, lockFile, roster, ensure, slips>>
    BY DEF RegistrationMined
  <1>2. PICK s \in {"minted", "reverted"} :
          minting' = [minting EXCEPT ![t].state = s, ![t].ours = (s = "minted")]
    BY DEF RegistrationMined
  <1>3. PICK o \in BOOLEAN : o = (s = "minted")
    OBVIOUS
  <1>4. PICK r : r = [state |-> s, key |-> minting[t].key, ours |-> o]
    OBVIOUS
  <1>5. minting \in [Tokens -> Mintings] /\ minting[t] \in Mintings
    BY EnsureTypes
  <1>6. r \in Mintings /\ r.key = minting[t].key
    BY <1>4, <1>5 DEF Mintings
  <1>7. minting = [u \in Tokens |-> minting[u]]
    BY <1>5
  <1>8. minting[t] = [state |-> minting[t].state, key |-> minting[t].key, ours |-> minting[t].ours]
    BY <1>5 DEF Mintings
  <1>9. minting' = [minting EXCEPT ![t].state = s, ![t].ours = o]
    BY <1>2, <1>3
  <1>10. minting'[t] = r
    BY <1>4, <1>5, <1>8, <1>9
  <1>11. minting' = [minting EXCEPT ![t] = r]
    BY <1>5, <1>7, <1>9, <1>10
  <1> QED
    BY <1>1, <1>6, <1>11, ChainStepKeeps DEF Mined

LEMMA TokenGivenAwayKeeps ==
  ASSUME IdentityInv, NEW t \in Tokens, TokenGivenAway(t)
  PROVE  IdentityInv'
  <1>1. PICK r : r = [minting[t] EXCEPT !.ours = FALSE]
    OBVIOUS
  <1>2. minting[t] \in Mintings
    BY EnsureTypes
  <1>3. r \in Mintings /\ r.key = minting[t].key /\ r.state = minting[t].state
    BY <1>1, <1>2 DEF Mintings
  <1>4. minting' = [minting EXCEPT ![t] = r]
    BY <1>1, EnsureTypes DEF TokenGivenAway
  <1> QED
    BY <1>3, <1>4, ChainStepKeeps DEF Mined, TokenGivenAway

LEMMA NextIdentityInv == IdentityInv /\ [EnsureNext]_ensureVars => IdentityInv'
  <1> SUFFICES ASSUME IdentityInv, [EnsureNext]_ensureVars PROVE IdentityInv'
    OBVIOUS
  <1>1. CASE UNCHANGED ensureVars
    BY <1>1 DEF ensureVars, IdentityInv, EnsureTypeOK, LockIsHeld, LooksUpAToken, KnownIsMinted, KeysNameOne, Mined
  <1>2. CASE LockAges
    BY <1>2, LockAgesKeeps
  <1>3. CASE \E t \in Tokens : RegistrationMined(t) \/ TokenGivenAway(t)
    BY <1>3, RegistrationMinedKeeps, TokenGivenAwayKeeps
  <1>4. ASSUME NEW e \in Ensures,
               \/ BeginEnsure(e) \/ Resync(e) \/ Finalize(e) \/ SyncFinalized(e) \/ Scan(e) \/ MergeRoster(e)
               \/ AcquireLock(e) \/ UnlinkStale(e) \/ RetryLock(e) \/ WriteSubmitted(e)
               \/ Register(e) \/ RegisterRefused(e) \/ StoreIdentityHash(e) \/ SyncNew(e)
               \/ ReleaseLock(e) \/ EnsureCrash(e)
        PROVE  IdentityInv'
    BY <1>4, BeginEnsureKeeps, ResyncKeeps, FinalizeKeeps, SyncFinalizedKeeps, ScanKeeps, MergeRosterKeeps,
       AcquireLockKeeps, UnlinkStaleKeeps, RetryLockKeeps, WriteSubmittedKeeps, RegisterKeeps,
       RegisterRefusedKeeps, StoreIdentityHashKeeps, SyncNewKeeps, ReleaseLockKeeps, EnsureCrashKeeps
  <1> QED
    BY <1>1, <1>2, <1>3, <1>4 DEF EnsureNext

\* A set without two different members has one, or none.
LEMMA AtMostOneMember ==
  ASSUME NEW S, \A x \in S : \A y \in S : x = y
  PROVE  Cardinality(S) <= 1
  <1>1. CASE S = {}
    BY <1>1, FS_EmptySet
  <1>2. CASE S # {}
    <2>1. PICK x \in S : S = {x}
      BY <1>2
    <2> QED
      BY <2>1, FS_Singleton
  <1> QED
    BY <1>1, <1>2

LEMMA IdentityInvGives ==
  IdentityInv => EnsureTypeOK /\ RegistrationsAreSerial /\ IdentityIsReal /\ OneRegistrationPerKey
  <1> SUFFICES ASSUME IdentityInv
               PROVE  EnsureTypeOK /\ RegistrationsAreSerial /\ IdentityIsReal /\ OneRegistrationPerKey
    OBVIOUS
  <1>1. RegistrationsAreSerial
    <2> SUFFICES ASSUME slips = 0 PROVE Cardinality(Registering) <= 1
      BY DEF RegistrationsAreSerial
    <2>1. \A x \in Registering : \A y \in Registering : x = y
      BY DEF Registering, IdentityInv, LockIsHeld, RegisteringStages
    <2> QED
      BY <2>1, AtMostOneMember
  <1>2. IdentityIsReal
    BY DEF IdentityInv, KnownIsMinted, IdentityIsReal
  <1>3. OneRegistrationPerKey
    <2> SUFFICES ASSUME NEW m \in Metas PROVE Cardinality({t \in Tokens : minting[t].key = m}) <= 1
      BY DEF OneRegistrationPerKey
    <2>1. \A x \in {t \in Tokens : minting[t].key = m} : \A y \in {t \in Tokens : minting[t].key = m} : x = y
      BY EnsureAssumption DEF IdentityInv, KeysNameOne
    <2> QED
      BY <2>1, AtMostOneMember
  <1> QED
    BY <1>1, <1>2, <1>3 DEF IdentityInv
-----------------------------------------------------------------------------
(***************************************************************************)
(* Approvals.  The invariant says who may still call the wallet: a call    *)
(* that has not done so yet is the only one under way on its approval, and *)
(* the row is executing and carries no hash, so that no retry can join it. *)
(***************************************************************************)
Underway == {"unsupported", "running", "sent", "syncing"}
Fresh    == {"unsupported", "running", "sent"}
Unsent   == {"none"} \cup Open \cup Blocked

CreatingHasNoRow == \A a \in creating : state[a] = "none"

CallsHaveApproval == \A c \in Calls : at[c] # "idle" => on[c] \in Approvals

HashIsLate == \A a \in hash : state[a] \in {"executing", "executed", "failed"}

\* Nothing was or will be sent for a row in one of these states.
UnsentIsQuiet ==
    \A a \in Approvals : state[a] \in Unsent =>
        sent[a] = 0 /\ \A c \in Calls : at[c] \in Underway => on[c] # a

FreshIsAlone ==
    \A c \in Calls : at[c] \in Fresh =>
        /\ state[on[c]] = "executing"
        /\ on[c] \notin hash
        /\ at[c] # "sent" => sent[on[c]] = 0
        /\ \A d \in Calls : d # c /\ at[d] \in Underway => on[d] # on[c]

ApprovalsInv ==
    /\ TypeOK
    /\ CreatingHasNoRow
    /\ CallsHaveApproval
    /\ HashIsLate
    /\ UnsentIsQuiet
    /\ FreshIsAlone
    /\ SingleUse

USE ApprovalsAssumption DEF Open, Blocked, Settled, Unsent

LEMMA InitApprovalsInv == Init => ApprovalsInv
  BY DEF Init, ApprovalsInv, TypeOK, CreatingHasNoRow, CallsHaveApproval, HashIsLate,
     UnsentIsQuiet, FreshIsAlone, SingleUse, Underway, Fresh

\* A step of a handler that has not begun an execution only changes rows that
\* are not executing, and no call.
LEMMA QuietSteps ==
  ASSUME ApprovalsInv, NEW a \in Approvals,
         \/ CheckDuplicate(a) \/ CreateApproval(a) \/ PassDeadline(a) \/ ReadExpired(a)
         \/ Reject(a) \/ Cancel(a) \/ ApproveById(a)
  PROVE  ApprovalsInv'
  <1> USE DEF ApprovalsInv, Expire
  <1>1. UNCHANGED <<hash, at, on, sent>>
    BY DEF CheckDuplicate, CreateApproval, PassDeadline, ReadExpired, Reject, Cancel,
       ApproveById, FromPending
  <1>2. TypeOK'
    BY DEF TypeOK, CheckDuplicate, CreateApproval, PassDeadline, ReadExpired, Reject, Cancel,
       ApproveById, FromPending
  <1>3. CreatingHasNoRow'
    BY DEF TypeOK, CreatingHasNoRow, CheckDuplicate, CreateApproval, PassDeadline,
       ReadExpired, Reject, Cancel, ApproveById, FromPending
  <1>4. \A b \in Approvals : state'[b] # state[b] => state[b] \in Unsent /\ state'[b] \in Unsent
    BY DEF TypeOK, CreatingHasNoRow, CheckDuplicate, CreateApproval, PassDeadline,
       ReadExpired, Reject, Cancel, ApproveById, FromPending
  <1>5. CallsHaveApproval'
    BY <1>1 DEF CallsHaveApproval
  <1>6. HashIsLate'
    BY <1>1, <1>4 DEF HashIsLate, TypeOK
  <1>7. UnsentIsQuiet'
    BY <1>1, <1>4 DEF UnsentIsQuiet
  <1>8. FreshIsAlone'
    <2>1. ASSUME NEW c \in Calls, at[c] \in Fresh PROVE state'[on[c]] = "executing"
      BY <2>1, <1>4 DEF FreshIsAlone, CallsHaveApproval, Fresh
    <2> QED
      BY <2>1, <1>1 DEF FreshIsAlone
  <1>9. SingleUse'
    BY <1>1 DEF SingleUse
  <1> QED
    BY <1>2, <1>3, <1>5, <1>6, <1>7, <1>8, <1>9

LEMMA BeginSteps ==
  ASSUME ApprovalsInv, NEW a \in Approvals, NEW c \in Calls,
         Approve(c, a) \/ Execute(c, a) \/ RetrySync(c, a)
  PROVE  ApprovalsInv'
  <1> USE DEF ApprovalsInv
  <1>1. UNCHANGED <<state, due, hash, creating, sent, synced, crashes>> /\ at[c] = "idle"
    BY DEF Approve, Execute, RetrySync, Begin
  <1>2. PICK s \in {"approve", "execute", "syncing"} :
           /\ at' = [at EXCEPT ![c] = s]
           /\ on' = [on EXCEPT ![c] = a]
           /\ s = "syncing" => state[a] = "executing" /\ a \in hash
    BY DEF Approve, Execute, RetrySync, Begin
  <1>3. TypeOK' /\ CreatingHasNoRow' /\ CallsHaveApproval' /\ HashIsLate' /\ SingleUse'
    BY <1>1, <1>2 DEF TypeOK, CreatingHasNoRow, CallsHaveApproval, HashIsLate, SingleUse
  <1>4. UnsentIsQuiet'
    BY <1>1, <1>2 DEF TypeOK, UnsentIsQuiet, Underway
  <1>5. FreshIsAlone'
    BY <1>1, <1>2 DEF TypeOK, FreshIsAlone, Underway, Fresh
  <1> QED
    BY <1>3, <1>4, <1>5

LEMMA StartSteps ==
  ASSUME ApprovalsInv, NEW c \in Calls,
         TransitionToExecuting(c) \/ TransitionFromApprovedToExecuting(c)
  PROVE  ApprovalsInv'
  <1> USE DEF ApprovalsInv
  <1> DEFINE a == on[c]
  <1>1. /\ at[c] \in {"approve", "execute"}
        /\ a \in Approvals
        /\ UNCHANGED <<due, hash, creating, sent, synced, crashes>>
    BY DEF TransitionToExecuting, TransitionFromApprovedToExecuting, StartIfIn,
       CallsHaveApproval
  <1>2. \/ /\ state[a] \in Open
           /\ state' = [state EXCEPT ![a] = "executing"]
           /\ on' = on
           /\ \E s \in {"unsupported", "running"} : at' = [at EXCEPT ![c] = s]
        \/ /\ state' = [state EXCEPT ![a] = Expire(a)]
           /\ at' = [at EXCEPT ![c] = "idle"]
           /\ on' = [on EXCEPT ![c] = NoApproval]
    BY DEF TransitionToExecuting, TransitionFromApprovedToExecuting, StartIfIn, Leave
  <1>3. CASE state[a] \in Open /\ state' = [state EXCEPT ![a] = "executing"]
    <2>1. on' = on /\ \E s \in {"unsupported", "running"} : at' = [at EXCEPT ![c] = s]
      BY <1>1, <1>2, <1>3 DEF Expire, TypeOK
    <2>2. PICK s \in {"unsupported", "running"} : at' = [at EXCEPT ![c] = s]
      BY <2>1
    <2>3. TypeOK' /\ CreatingHasNoRow' /\ CallsHaveApproval' /\ HashIsLate' /\ SingleUse'
      BY <1>1, <1>3, <2>1, <2>2
      DEF TypeOK, CreatingHasNoRow, CallsHaveApproval, HashIsLate, SingleUse
    <2>4. UnsentIsQuiet'
      BY <1>1, <1>3, <2>1, <2>2 DEF TypeOK, UnsentIsQuiet, Underway
    <2>5. FreshIsAlone'
      BY <1>1, <1>3, <2>1, <2>2 DEF TypeOK, FreshIsAlone, UnsentIsQuiet, HashIsLate,
         CallsHaveApproval, Underway, Fresh
    <2> QED
      BY <2>3, <2>4, <2>5
  <1>4. CASE /\ state' = [state EXCEPT ![a] = Expire(a)]
             /\ at' = [at EXCEPT ![c] = "idle"]
             /\ on' = [on EXCEPT ![c] = NoApproval]
    <2>1. TypeOK' /\ CreatingHasNoRow' /\ CallsHaveApproval' /\ HashIsLate' /\ SingleUse'
      BY <1>1, <1>4
      DEF Expire, TypeOK, CreatingHasNoRow, CallsHaveApproval, HashIsLate, SingleUse
    <2>2. UnsentIsQuiet'
      BY <1>1, <1>4 DEF Expire, TypeOK, UnsentIsQuiet, Underway
    <2>3. FreshIsAlone'
      BY <1>1, <1>4 DEF Expire, TypeOK, FreshIsAlone, CallsHaveApproval, Underway, Fresh
    <2> QED
      BY <2>1, <2>2, <2>3
  <1> QED
    BY <1>2, <1>3, <1>4

LEMMA WalletSteps ==
  ASSUME ApprovalsInv, NEW c \in Calls, CallWallet(c) \/ ReportToConsole(c)
  PROVE  ApprovalsInv'
  <1> USE DEF ApprovalsInv
  <1>1. /\ on[c] \in Approvals
        /\ at[c] \in Fresh
        /\ UNCHANGED <<state, due, hash, creating, on, crashes>>
    BY DEF CallWallet, ReportToConsole, CallsHaveApproval, Fresh
  <1>2. CASE CallWallet(c)
    <2>1. /\ at[c] = "running"
          /\ at' = [at EXCEPT ![c] = "sent"]
          /\ sent' = [sent EXCEPT ![on[c]] = 1]
          /\ synced' = synced
      <3>1. sent[on[c]] = 0
        BY <1>1, <1>2 DEF CallWallet, FreshIsAlone
      <3> QED
        BY <3>1, <1>2 DEF CallWallet
    <2>2. TypeOK' /\ CreatingHasNoRow' /\ CallsHaveApproval' /\ HashIsLate' /\ SingleUse'
      BY <1>1, <2>1 DEF TypeOK, CreatingHasNoRow, CallsHaveApproval, HashIsLate, SingleUse
    <2>3. UnsentIsQuiet'
      BY <1>1, <2>1 DEF TypeOK, UnsentIsQuiet, FreshIsAlone, Underway, Fresh
    <2>4. FreshIsAlone'
      BY <1>1, <2>1 DEF TypeOK, FreshIsAlone, CallsHaveApproval, Underway, Fresh
    <2> QED
      BY <2>2, <2>3, <2>4
  <1>3. CASE ReportToConsole(c)
    <2>1. /\ at[c] = "sent"
          /\ at' = [at EXCEPT ![c] = "syncing"]
          /\ sent' = sent
          /\ synced' = synced \cup {on[c]}
      BY <1>3 DEF ReportToConsole
    <2>2. TypeOK' /\ CreatingHasNoRow' /\ CallsHaveApproval' /\ HashIsLate' /\ SingleUse'
      BY <1>1, <2>1 DEF TypeOK, CreatingHasNoRow, CallsHaveApproval, HashIsLate, SingleUse
    <2>3. UnsentIsQuiet'
      BY <1>1, <2>1 DEF TypeOK, UnsentIsQuiet, Underway
    <2>4. FreshIsAlone'
      BY <1>1, <2>1 DEF TypeOK, FreshIsAlone, Underway, Fresh
    <2> QED
      BY <2>2, <2>3, <2>4
  <1> QED
    BY <1>2, <1>3

LEMMA FinishSteps ==
  ASSUME ApprovalsInv, NEW c \in Calls,
         Succeed(c) \/ Fail(c) \/ SyncFails(c) \/ SyncPending(c)
  PROVE  ApprovalsInv'
  <1> USE DEF ApprovalsInv
  <1> DEFINE a == on[c]
  <1>1. /\ at[c] \in Underway
        /\ a \in Approvals
        /\ at' = [at EXCEPT ![c] = "idle"]
        /\ on' = [on EXCEPT ![c] = NoApproval]
        /\ UNCHANGED <<due, creating, sent, synced, crashes>>
    BY DEF Succeed, Fail, SyncFails, SyncPending, Finish, Leave, Underway, CallsHaveApproval
  <1>2. PICK s \in {"executing", "executed", "failed"} :
           /\ state' = IF state[a] = "executing" THEN [state EXCEPT ![a] = s] ELSE state
           /\ hash' = hash \/ (state[a] = "executing" /\ hash' = hash \cup {a})
    <2>1. PICK s \in {"executing", "executed", "failed"}, w \in BOOLEAN : Finish(c, s, w)
      BY DEF Succeed, Fail, SyncFails, SyncPending, IsRegistration
    <2> QED
      BY <2>1 DEF Finish
  <1>3. TypeOK' /\ CallsHaveApproval' /\ SingleUse'
    BY <1>1, <1>2 DEF TypeOK, CallsHaveApproval, SingleUse
  <1>4. CreatingHasNoRow' /\ HashIsLate'
    BY <1>1, <1>2 DEF TypeOK, CreatingHasNoRow, HashIsLate
  <1>5. UnsentIsQuiet'
    BY <1>1, <1>2 DEF TypeOK, UnsentIsQuiet, Underway
  <1>6. FreshIsAlone'
    <2>1. ASSUME NEW d \in Calls, at'[d] \in Fresh
          PROVE  at[d] \in Fresh /\ d # c /\ on'[d] = on[d] /\ on[d] # a /\ on[d] \in Approvals
      BY <1>1, <2>1 DEF TypeOK, FreshIsAlone, CallsHaveApproval, Fresh, Underway
    <2>2. ASSUME NEW d \in Calls, at'[d] \in Underway
          PROVE  at[d] \in Underway /\ on'[d] = on[d]
      BY <1>1, <2>2 DEF TypeOK, Underway
    <2> QED
      BY <1>1, <1>2, <2>1, <2>2 DEF TypeOK, FreshIsAlone, Fresh
  <1> QED
    BY <1>3, <1>4, <1>5, <1>6

LEMMA CrashSteps == ASSUME ApprovalsInv, NEW p \in Procs, Crash(p) PROVE ApprovalsInv'
  <1> USE DEF ApprovalsInv, Crash
  <1>1. TypeOK' /\ CreatingHasNoRow' /\ CallsHaveApproval' /\ HashIsLate' /\ SingleUse'
    BY DEF TypeOK, CreatingHasNoRow, CallsHaveApproval, HashIsLate, SingleUse
  <1>2. UnsentIsQuiet' /\ FreshIsAlone'
    BY DEF TypeOK, UnsentIsQuiet, FreshIsAlone, Underway, Fresh
  <1> QED
    BY <1>1, <1>2

LEMMA NextApprovalsInv == ApprovalsInv /\ [Next]_vars => ApprovalsInv'
  <1> SUFFICES ASSUME ApprovalsInv, [Next]_vars PROVE ApprovalsInv'
    OBVIOUS
  <1>1. CASE UNCHANGED vars
    BY <1>1 DEF vars, ApprovalsInv, TypeOK, CreatingHasNoRow, CallsHaveApproval, HashIsLate,
       UnsentIsQuiet, FreshIsAlone, SingleUse
  <1> QED
    BY <1>1, QuietSteps, BeginSteps, StartSteps, WalletSteps, FinishSteps, CrashSteps
    DEF Next, Continue

LEMMA ApprovalsInvariant == Spec => []ApprovalsInv
  BY InitApprovalsInv, NextApprovalsInv, PTL DEF Spec

\* Type correctness of the approvals.
THEOREM ApprovalsTypeCorrect == Spec => []TypeOK
  <1>1. ApprovalsInv => TypeOK
    BY DEF ApprovalsInv
  <1> QED
    BY <1>1, ApprovalsInvariant, PTL

\* The wallet is called at most once for an approval, whatever processes
\* approve, execute and retry it and whenever they die.
THEOREM ApprovalsAreSingleUse == Spec => []SingleUse
  <1>1. ApprovalsInv => SingleUse
    BY DEF ApprovalsInv
  <1> QED
    BY <1>1, ApprovalsInvariant, PTL

\* A rejected, cancelled or expired approval is never executed, however close
\* the race.
THEOREM BlockedStaysUnsent == Spec => []BlockedIsNeverSent
  <1>1. ApprovalsInv => BlockedIsNeverSent
    BY DEF ApprovalsInv, UnsentIsQuiet, BlockedIsNeverSent, Underway
  <1> QED
    BY <1>1, ApprovalsInvariant, PTL

\* No step changes a verdict.
LEMMA StepKeepsVerdict ==
  ASSUME ApprovalsInv, [Next]_vars, NEW a \in Approvals, state[a] \in Settled
  PROVE  state'[a] = state[a]
  <1> USE DEF ApprovalsInv, TypeOK
  <1>1. ASSUME NEW b \in Approvals,
               \/ CheckDuplicate(b) \/ CreateApproval(b) \/ PassDeadline(b)
               \/ ReadExpired(b) \/ Reject(b) \/ Cancel(b) \/ ApproveById(b)
        PROVE  state'[a] = state[a]
    BY <1>1 DEF CheckDuplicate, CreateApproval, PassDeadline, ReadExpired, Reject, Cancel,
       ApproveById, FromPending, Expire, CreatingHasNoRow
  <1>2. ASSUME NEW c \in Calls, Continue(c) PROVE state'[a] = state[a]
    <2>1. CASE TransitionToExecuting(c) \/ TransitionFromApprovedToExecuting(c)
      BY <2>1 DEF TransitionToExecuting, TransitionFromApprovedToExecuting, StartIfIn, Expire
    <2>2. CASE CallWallet(c) \/ ReportToConsole(c)
      BY <2>2 DEF CallWallet, ReportToConsole
    <2>3. CASE Succeed(c) \/ Fail(c) \/ SyncFails(c) \/ SyncPending(c)
      BY <2>3 DEF Succeed, Fail, SyncFails, SyncPending, Finish
    <2> QED
      BY <1>2, <2>1, <2>2, <2>3 DEF Continue
  <1>3. ASSUME NEW b \in Approvals, NEW c \in Calls,
               Approve(c, b) \/ Execute(c, b) \/ RetrySync(c, b)
        PROVE  state'[a] = state[a]
    BY <1>3 DEF Approve, Execute, RetrySync, Begin
  <1>4. ASSUME NEW p \in Procs, Crash(p) PROVE state'[a] = state[a]
    BY <1>4 DEF Crash
  <1> QED
    BY <1>1, <1>2, <1>3, <1>4 DEF Next, vars

\* The first verdict on an approval stays.
THEOREM VerdictsAreFinal == Spec => SettledIsFinal
  <1>1. ApprovalsInv /\ [Next]_vars
          => [\A a \in Approvals : state[a] \in Settled => state'[a] = state[a]]_vars
    BY StepKeepsVerdict
  <1> QED
    BY <1>1, ApprovalsInvariant, PTL DEF Spec, SettledIsFinal

-----------------------------------------------------------------------------
(***************************************************************************)
(* Of the registrations of one signature that one process has created, one *)
(* at most is live: it is being created, is open or executing, or has a    *)
(* verdict and a hash.  What the Console was told of stays live.           *)
(***************************************************************************)
Live(a) ==
    \/ a \in creating
    \/ state[a] \in Open \cup {"executing", "executed"}
    \/ state[a] = "failed" /\ a \in hash

Alike(a, b) == a # b /\ SignatureOf[a] = SignatureOf[b] /\ CreatorOf[a] = CreatorOf[b]

OneIsLive ==
    \A a \in Approvals : \A b \in Approvals :
        Alike(a, b) /\ IsRegistration(a) => ~Live(a) \/ ~Live(b)

SyncedIsLive ==
    \A a \in synced : IsRegistration(a) /\ (\/ state[a] \in {"executing", "executed"}
                                            \/ state[a] = "failed" /\ a \in hash)

FreshIsUnsynced == \A c \in Calls : at[c] \in Fresh => on[c] \notin synced

SyncInv == ApprovalsInv /\ OneIsLive /\ SyncedIsLive /\ FreshIsUnsynced

LEMMA InitSyncInv == Init => SyncInv
  <1> SUFFICES ASSUME Init PROVE SyncInv
    OBVIOUS
  <1>1. OneIsLive /\ SyncedIsLive /\ FreshIsUnsynced
    BY DEF Init, OneIsLive, Live, SyncedIsLive, FreshIsUnsynced, Fresh
  <1> QED
    BY <1>1, InitApprovalsInv DEF SyncInv

\* Only the check of a creation makes an approval live.
LEMMA CheckMakesLive ==
  ASSUME ApprovalsInv, [Next]_vars, NEW b \in Approvals, Live(b)', ~Live(b)
  PROVE  CheckDuplicate(b)
  <1> USE DEF ApprovalsInv, TypeOK, Live
  <1>1. CASE UNCHANGED vars
    BY <1>1 DEF vars
  <1>2. ASSUME NEW a \in Approvals, CheckDuplicate(a), a # b PROVE FALSE
    BY <1>2 DEF CheckDuplicate, Expire
  <1>3. ASSUME NEW a \in Approvals,
               \/ CreateApproval(a) \/ PassDeadline(a) \/ ReadExpired(a)
               \/ Reject(a) \/ Cancel(a) \/ ApproveById(a)
        PROVE  FALSE
    BY <1>3 DEF CreateApproval, PassDeadline, ReadExpired, Reject, Cancel, ApproveById, FromPending
  <1>4. ASSUME NEW a \in Approvals, NEW c \in Calls,
               Approve(c, a) \/ Execute(c, a) \/ RetrySync(c, a)
        PROVE  FALSE
    BY <1>4 DEF Approve, Execute, RetrySync, Begin
  <1>5. ASSUME NEW c \in Calls, Continue(c) PROVE FALSE
    <2>1. CASE TransitionToExecuting(c) \/ TransitionFromApprovedToExecuting(c)
      BY <2>1 DEF TransitionToExecuting, TransitionFromApprovedToExecuting, StartIfIn, Expire
    <2>2. CASE CallWallet(c) \/ ReportToConsole(c)
      BY <2>2 DEF CallWallet, ReportToConsole
    <2>3. CASE Succeed(c) \/ Fail(c) \/ SyncFails(c) \/ SyncPending(c)
      BY <2>3 DEF Succeed, Fail, SyncFails, SyncPending, Finish
    <2> QED
      BY <1>5, <2>1, <2>2, <2>3 DEF Continue
  <1>6. ASSUME NEW p \in Procs, Crash(p) PROVE FALSE
    BY <1>6 DEF Crash
  <1> QED
    BY <1>1, <1>2, <1>3, <1>4, <1>5, <1>6 DEF Next

\* The check refuses a second one, and a process makes one check at a time.
LEMMA CheckFindsNoneLive ==
  ASSUME ApprovalsInv, NEW a \in Approvals, NEW b \in Approvals, Alike(a, b), IsRegistration(a),
         CheckDuplicate(a)
  PROVE  ~Live(b)'
  <1>1. b \notin creating
    BY DEF CheckDuplicate, Busy, Alike
  <1>2. ~Blocks(b)
    BY DEF CheckDuplicate, IsDuplicate, Alike
  <1>3. state'[b] = Expire(b) /\ creating' = creating \cup {a} /\ hash' = hash
    BY DEF CheckDuplicate
  <1>4. Expire(b) = "failed" => state[b] = "failed"
    BY DEF Expire
  <1> QED
    BY <1>1, <1>2, <1>3, <1>4 DEF Live, Blocks, Alike

LEMMA OneIsLiveKept ==
  ASSUME SyncInv, [Next]_vars PROVE OneIsLive'
  <1> SUFFICES ASSUME NEW a \in Approvals, NEW b \in Approvals, Alike(a, b), IsRegistration(a),
                      Live(a)', Live(b)'
               PROVE  FALSE
    BY DEF OneIsLive, Alike, IsRegistration
  <1>1. CASE ~Live(a)
    BY <1>1, CheckMakesLive, CheckFindsNoneLive DEF SyncInv
  <1>2. CASE ~Live(b)
    <2>1. CheckDuplicate(b)
      BY <1>2, CheckMakesLive DEF SyncInv
    <2>2. Alike(b, a) /\ IsRegistration(b)
      BY DEF Alike, IsRegistration
    <2> QED
      BY <2>1, <2>2, CheckFindsNoneLive DEF SyncInv
  <1> QED
    BY <1>1, <1>2 DEF SyncInv, OneIsLive

\* What the Console was told of keeps its row; a call that was not yet made
\* has nothing to tell.
LEMMA SyncedKept ==
  ASSUME SyncInv, [Next]_vars PROVE SyncedIsLive' /\ FreshIsUnsynced'
  <1> USE DEF SyncInv, ApprovalsInv, TypeOK
  <1>1. CASE UNCHANGED vars
    BY <1>1 DEF vars, SyncedIsLive, FreshIsUnsynced, IsRegistration
  <1>2. ASSUME NEW a \in Approvals,
               \/ CheckDuplicate(a) \/ CreateApproval(a) \/ PassDeadline(a) \/ ReadExpired(a)
               \/ Reject(a) \/ Cancel(a) \/ ApproveById(a)
        PROVE  SyncedIsLive' /\ FreshIsUnsynced'
    BY <1>2 DEF CheckDuplicate, CreateApproval, PassDeadline, ReadExpired, Reject, Cancel, ApproveById,
       FromPending, Expire, CreatingHasNoRow, SyncedIsLive, FreshIsUnsynced, IsRegistration
  <1>3. ASSUME NEW a \in Approvals, NEW c \in Calls, Approve(c, a) \/ Execute(c, a) \/ RetrySync(c, a)
        PROVE  SyncedIsLive' /\ FreshIsUnsynced'
    BY <1>3 DEF Approve, Execute, RetrySync, Begin, SyncedIsLive, FreshIsUnsynced, Fresh, IsRegistration
  <1>4. ASSUME NEW c \in Calls, TransitionToExecuting(c) \/ TransitionFromApprovedToExecuting(c)
        PROVE  SyncedIsLive' /\ FreshIsUnsynced'
    <2>1. at[c] \in {"approve", "execute"} /\ on[c] \in Approvals /\ UNCHANGED <<hash, synced>>
      BY <1>4 DEF TransitionToExecuting, TransitionFromApprovedToExecuting, StartIfIn, CallsHaveApproval
    <2>2. \/ /\ state[on[c]] \in Open /\ state' = [state EXCEPT ![on[c]] = "executing"]
             /\ \E s \in {"unsupported", "running"} : at' = [at EXCEPT ![c] = s]
             /\ on' = on
          \/ /\ state' = [state EXCEPT ![on[c]] = Expire(on[c])]
             /\ at' = [at EXCEPT ![c] = "idle"] /\ on' = [on EXCEPT ![c] = NoApproval]
      BY <1>4 DEF TransitionToExecuting, TransitionFromApprovedToExecuting, StartIfIn, Leave
    <2> QED
      BY <2>1, <2>2 DEF SyncedIsLive, FreshIsUnsynced, Fresh, IsRegistration, Expire
  <1>5. ASSUME NEW c \in Calls, CallWallet(c) PROVE SyncedIsLive' /\ FreshIsUnsynced'
    BY <1>5 DEF CallWallet, SyncedIsLive, FreshIsUnsynced, Fresh, IsRegistration
  <1>6. ASSUME NEW c \in Calls, ReportToConsole(c) PROVE SyncedIsLive' /\ FreshIsUnsynced'
    BY <1>6 DEF ReportToConsole, SyncedIsLive, FreshIsUnsynced, FreshIsAlone, Fresh, Underway,
       CallsHaveApproval, IsRegistration
  <1>7. ASSUME NEW c \in Calls, Succeed(c) \/ Fail(c) \/ SyncFails(c) \/ SyncPending(c)
        PROVE  SyncedIsLive' /\ FreshIsUnsynced'
    <2>1. /\ on[c] \in Approvals /\ UNCHANGED synced
          /\ at' = [at EXCEPT ![c] = "idle"] /\ on' = [on EXCEPT ![c] = NoApproval]
      BY <1>7 DEF Succeed, Fail, SyncFails, SyncPending, Finish, Leave, CallsHaveApproval
    <2>2. FreshIsUnsynced'
      BY <2>1 DEF FreshIsUnsynced, Fresh
    <2>3. SyncedIsLive'
      <3>1. CASE Succeed(c)
        BY <2>1, <3>1 DEF Succeed, Finish, SyncedIsLive, IsRegistration
      <3>2. CASE SyncFails(c)
        BY <2>1, <3>2 DEF SyncFails, Finish, SyncedIsLive, IsRegistration
      <3>3. CASE SyncPending(c)
        BY <2>1, <3>3 DEF SyncPending, Finish, SyncedIsLive, IsRegistration
      <3>4. CASE Fail(c)
        <4>1. on[c] \in synced => on[c] \in hash
          BY <3>4 DEF Fail, FreshIsUnsynced, Fresh
        <4> QED
          BY <2>1, <3>4, <4>1 DEF Fail, Finish, SyncedIsLive, IsRegistration
      <3> QED
        BY <1>7, <3>1, <3>2, <3>3, <3>4
    <2> QED
      BY <2>2, <2>3
  <1>8. ASSUME NEW p \in Procs, Crash(p) PROVE SyncedIsLive' /\ FreshIsUnsynced'
    BY <1>8 DEF Crash, SyncedIsLive, FreshIsUnsynced, Fresh, IsRegistration
  <1> QED
    BY <1>1, <1>2, <1>3, <1>4, <1>5, <1>6, <1>7, <1>8 DEF Next, Continue

LEMMA NextSyncInv == SyncInv /\ [Next]_vars => SyncInv'
  BY NextApprovalsInv, OneIsLiveKept, SyncedKept DEF SyncInv

\* A wallet call is made for a live approval, so for no other of its kind.
LEMMA WalletCallIsForTheLive ==
  ASSUME SyncInv, [Next]_vars, NEW a \in Approvals, NEW b \in Approvals, Alike(a, b), a \in synced
  PROVE  sent'[b] = sent[b]
  <1>1. IsRegistration(a) /\ Live(a)
    BY DEF SyncInv, SyncedIsLive, Live
  <1>2. ~Live(b)
    BY <1>1 DEF SyncInv, OneIsLive
  <1>3. ASSUME NEW c \in Calls, CallWallet(c) PROVE sent'[b] = sent[b]
    <2>1. state[on[c]] = "executing" /\ on[c] \in Approvals
      BY <1>3 DEF CallWallet, SyncInv, ApprovalsInv, FreshIsAlone, CallsHaveApproval, Fresh
    <2>2. on[c] # b
      BY <1>2, <2>1 DEF Live
    <2> QED
      BY <1>3, <2>2 DEF CallWallet, SyncInv, ApprovalsInv, TypeOK
  <1>4. CASE UNCHANGED sent
    BY <1>4
  <1>5. UNCHANGED sent \/ \E c \in Calls : CallWallet(c)
    <2>1. CASE UNCHANGED vars
      BY <2>1 DEF vars
    <2>2. ASSUME NEW d \in Approvals,
                 \/ CheckDuplicate(d) \/ CreateApproval(d) \/ PassDeadline(d) \/ ReadExpired(d)
                 \/ Reject(d) \/ Cancel(d) \/ ApproveById(d)
          PROVE  UNCHANGED sent
      BY <2>2 DEF CheckDuplicate, CreateApproval, PassDeadline, ReadExpired, Reject, Cancel, ApproveById,
         FromPending
    <2>3. ASSUME NEW d \in Approvals, NEW c \in Calls, Approve(c, d) \/ Execute(c, d) \/ RetrySync(c, d)
          PROVE  UNCHANGED sent
      BY <2>3 DEF Approve, Execute, RetrySync, Begin
    <2>4. ASSUME NEW c \in Calls, Continue(c) PROVE UNCHANGED sent \/ CallWallet(c)
      BY <2>4 DEF Continue, TransitionToExecuting, TransitionFromApprovedToExecuting, StartIfIn,
         ReportToConsole, Succeed, Fail, SyncFails, SyncPending, Finish
    <2>5. ASSUME NEW p \in Procs, Crash(p) PROVE UNCHANGED sent
      BY <2>5 DEF Crash
    <2> QED
      BY <2>1, <2>2, <2>3, <2>4, <2>5 DEF Next
  <1> QED
    BY <1>3, <1>4, <1>5

\* A registration that was reported to the Console is not sent a second time
\* under another approval of the same process.
THEOREM SyncedIsNotRepeated == Spec => SyncedBlocksDuplicate
  <1>1. SyncInv /\ [Next]_vars
          => [\A a, b \in Approvals :
                a # b /\ SignatureOf[a] = SignatureOf[b] /\ CreatorOf[a] = CreatorOf[b] /\ a \in synced
                  => sent'[b] = sent[b]]_vars
    BY WalletCallIsForTheLive DEF Alike
  <1>2. Spec => []SyncInv
    BY InitSyncInv, NextSyncInv, PTL DEF Spec
  <1> QED
    BY <1>1, <1>2, PTL DEF Spec, SyncedBlocksDuplicate

HIDE ApprovalsAssumption DEF Open, Blocked, Settled, Unsent
-----------------------------------------------------------------------------
(***************************************************************************)
(* The components together.  They share no variable, so that a step of the *)
(* one at work is a step of it, and for every other one nothing.           *)
(***************************************************************************)
Focuses == {"approvals", "identity", "spend", "requests", "broker", "runtime"}

RunnerInv ==
    /\ focus \in Focuses
    /\ SyncInv /\ IdentityInv /\ SpendInv /\ RequestInv /\ BrokerInv /\ RuntimeInv

LEMMA InitRunnerInv == MCInit => RunnerInv
  BY InitSyncInv, InitIdentityInv, InitSpendInv, InitRequestInv, InitBrokerInv, InitRuntimeInv
  DEF MCInit, RunnerInv, Focuses

runnerVars == <<focus, vars, ensureVars, spendVars, requestVars, brokerVars, runtimeVars>>

LEMMA EachStepsOrRests ==
  ASSUME [MCNext]_runnerVars
  PROVE  /\ UNCHANGED focus /\ [Next]_vars /\ [EnsureNext]_ensureVars /\ [SpendNext]_spendVars
         /\ [RequestNext]_requestVars /\ [BrokerNext]_brokerVars /\ [RuntimeNext]_runtimeVars
  <1>1. CASE UNCHANGED runnerVars
    BY <1>1 DEF runnerVars
  <1>2. CASE ApprovalsAtWork
    BY <1>2 DEF ApprovalsAtWork, OthersRest
  <1>3. CASE IdentityAtWork
    BY <1>3 DEF IdentityAtWork, OthersRest
  <1>4. CASE SpendAtWork
    BY <1>4 DEF SpendAtWork, OthersRest
  <1>5. CASE RequestsAtWork
    BY <1>5 DEF RequestsAtWork, OthersRest
  <1>6. CASE BrokerAtWork
    BY <1>6 DEF BrokerAtWork, OthersRest
  <1>7. CASE RuntimeAtWork
    BY <1>7 DEF RuntimeAtWork, OthersRest
  <1> QED
    BY <1>1, <1>2, <1>3, <1>4, <1>5, <1>6, <1>7 DEF MCNext

LEMMA NextRunnerInv == RunnerInv /\ [MCNext]_runnerVars => RunnerInv'
  <1> SUFFICES ASSUME RunnerInv, [MCNext]_runnerVars PROVE RunnerInv'
    OBVIOUS
  <1>1. SyncInv' /\ IdentityInv' /\ SpendInv' /\ RequestInv' /\ BrokerInv' /\ RuntimeInv'
    BY EachStepsOrRests, NextSyncInv, NextIdentityInv, NextSpendInv, NextRequestInv, NextBrokerInv,
       NextRuntimeInv DEF RunnerInv
  <1>2. focus' \in Focuses
    BY EachStepsOrRests DEF RunnerInv
  <1> QED
    BY <1>1, <1>2 DEF RunnerInv

LEMMA RunnerInvariant == MCSpec => []RunnerInv
  BY InitRunnerInv, NextRunnerInv, PTL DEF MCSpec, runnerVars

\* Type correctness of the runner's components: approvals, registration,
\* spending, signed requests, the broker and the Console's provider runtime.
THEOREM RunnerTypeCorrect == MCSpec => []RunnerTypeOK
  <1>1. RunnerInv => RunnerTypeOK
    BY IdentityInvGives, SpendInvGives, RequestInvGives, BrokerInvGives, RuntimeInvGives
    DEF RunnerInv, SyncInv, ApprovalsInv, RunnerTypeOK, Focuses
  <1> QED
    BY <1>1, RunnerInvariant, PTL

\* What a client moves stays within the limits of the job, the day and the
\* month for every set of requests, amounts and limits; a session's calls stay
\* within their number, and it has one connection.
THEOREM LimitsAreKept == MCSpec => []LimitsHold
  <1>1. RunnerInv => LimitsHold
    BY SpendInvGives, BrokerInvGives DEF RunnerInv, LimitsHold, Focuses
  <1> QED
    BY <1>1, RunnerInvariant, PTL

\* Registrations are serial while nothing slips and one to a key, and the
\* identity on record is minted; a task is run once, and completed only with
\* its deliverable on the chain; a bot resumes the run it has begun.
THEOREM RetriedThingsAreDoneOnce == MCSpec => []RetriesDoItOnce
  <1>1. RunnerInv => RetriesDoItOnce
    BY IdentityInvGives, RequestInvGives, RuntimeInvGives DEF RunnerInv, RetriesDoItOnce, Focuses
  <1> QED
    BY <1>1, RunnerInvariant, PTL
=============================================================================
