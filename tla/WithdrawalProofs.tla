--------------------------- MODULE WithdrawalProofs ---------------------------
(* Proofs about Withdrawals, for any number of masters, requests, rows and  *)
(* any amounts.                                                             *)
EXTENDS Withdrawals, WellFoundedInduction, TLAPS

-----------------------------------------------------------------------------
(* What Total computes, for any number of rows. Induction is stated over    *)
(* sets of naturals and rests on < being well founded on Nat.               *)

LEMMA LessThanIsWellFounded ==
  \E R : /\ IsWellFoundedOn(R, Nat)
         /\ \A i, j \in Nat : i < j => <<i, j>> \in R
<1> DEFINE R == OpToRel(<, Nat)
<1>1. IsWellFoundedOn(R, Nat)
  BY NatLessThanWellFounded
<1>2. \A i, j \in Nat : i < j => <<i, j>> \in R
  BY DEF OpToRel
<1> HIDE DEF R
<1> QED
  BY <1>1, <1>2

LEMMA HasMinimal ==
  ASSUME NEW R, NEW S, IsWellFoundedOn(R, S), NEW T, T \subseteq S, T # {}
  PROVE  \E x \in T : \A y \in T : ~(<<y, x>> \in R)
BY WFMin, SMT

\* A set of naturals with 0 and every successor holds all of them.
LEMMA SetInduction ==
  ASSUME NEW S, 0 \in S, \A n \in Nat : n \in S => n + 1 \in S
  PROVE  \A n \in Nat : n \in S
<1> DEFINE T == Nat \ S
<1>1. SUFFICES ASSUME T # {} PROVE FALSE
  OBVIOUS
<1>2. PICK R : /\ IsWellFoundedOn(R, Nat)
               /\ \A i, j \in Nat : i < j => <<i, j>> \in R
  BY LessThanIsWellFounded
<1>3. PICK x \in T : \A y \in T : ~(<<y, x>> \in R)
  <2>1. T \subseteq Nat
    OBVIOUS
  <2> HIDE DEF T
  <2>2. IsWellFoundedOn(R, Nat) /\ T # {}
    BY <1>1, <1>2
  <2> QED
    BY <2>1, <2>2, HasMinimal, Zenon
<1>4. x \in Nat /\ x # 0 /\ x - 1 \in Nat
  BY <1>3
<1>5. x - 1 \in T
  <2>1. (x - 1) + 1 = x
    BY <1>4
  <2> QED
    BY <1>3, <1>4, <2>1
<1>6. <<x - 1, x>> \in R
  BY <1>2, <1>4
<1> QED
  BY <1>3, <1>5, <1>6

-----------------------------------------------------------------------------
\* g is the running sum of the amounts up to n.
IsRunning(g, amount, n) ==
  /\ g \in [0..n -> Int]
  /\ g[0] = 0
  /\ \A i \in 1..n : g[i] = g[i - 1] + amount[i]

LEMMA RunningExists ==
  ASSUME NEW n \in Nat, NEW amount, \A i \in 1..n : amount[i] \in Int
  PROVE  \E g : IsRunning(g, amount, n)
<1> DEFINE S == {k \in Nat : k <= n => \E g : IsRunning(g, amount, k)}
<1>1. 0 \in S
  <2>1. IsRunning([i \in 0..0 |-> 0], amount, 0)
    BY DEF IsRunning
  <2> QED
    BY <2>1
<1>2. ASSUME NEW k \in Nat, k \in S PROVE k + 1 \in S
  <2>1. SUFFICES ASSUME k + 1 <= n PROVE \E g : IsRunning(g, amount, k + 1)
    OBVIOUS
  <2>2. PICK g : IsRunning(g, amount, k)
    BY <1>2, <2>1
  <2> DEFINE h == [i \in 0..(k + 1) |-> IF i = k + 1 THEN g[k] + amount[k + 1]
                                        ELSE g[i]]
  <2>3. g[k] \in Int /\ amount[k + 1] \in Int /\ \A i \in 0..k : g[i] \in Int
    BY <2>1, <2>2 DEF IsRunning
  <2>4. h \in [0..(k + 1) -> Int]
    BY <2>3
  <2>5. h[0] = 0
    BY <2>2 DEF IsRunning
  <2>6. ASSUME NEW i \in 1..(k + 1) PROVE h[i] = h[i - 1] + amount[i]
    <3>1. CASE i = k + 1
      BY <3>1
    <3>2. CASE i # k + 1
      <4>1. i \in 1..k /\ i - 1 \in 0..k /\ i - 1 # k + 1
        BY <3>2
      <4> QED
        BY <2>2, <3>2, <4>1 DEF IsRunning
    <3> QED
      BY <3>1, <3>2
  <2> HIDE DEF h
  <2> QED
    BY <2>4, <2>5, <2>6 DEF IsRunning
<1> HIDE DEF S
<1>3. n \in S
  BY <1>1, <1>2, SetInduction
<1> QED
  BY <1>3 DEF S

\* Total is the last value of a running sum.
LEMMA TotalRuns ==
  ASSUME NEW n \in Nat, NEW amount, \A i \in 1..n : amount[i] \in Int
  PROVE  \E g : IsRunning(g, amount, n) /\ Total(amount, n) = g[n]
<1> DEFINE F(g) == g = [i \in 0..n |-> IF i = 0 THEN 0
                                       ELSE g[i - 1] + amount[i]]
           f == CHOOSE g : F(g)
<1>1. Total(amount, n) = f[n]
  BY DEF Total
<1>2. PICK g : IsRunning(g, amount, n)
  BY RunningExists
<1>3. F(g)
  BY <1>2 DEF IsRunning
<1>4. F(f)
  <2> HIDE DEF F
  <2> QED
    BY <1>3
<1> HIDE DEF f
<1>5. f[0] = 0 /\ \A i \in 1..n : f[i] = f[i - 1] + amount[i]
  BY <1>4
<1> DEFINE S == {k \in Nat : k <= n => f[k] \in Int}
<1>6. \A k \in Nat : k \in S
  <2>1. 0 \in S
    BY <1>5
  <2>2. ASSUME NEW k \in Nat, k \in S PROVE k + 1 \in S
    <3>1. k + 1 <= n => f[k + 1] = f[k] + amount[k + 1] /\ amount[k + 1] \in Int
      BY <1>5
    <3> QED
      BY <2>2, <3>1
  <2> HIDE DEF S
  <2> QED
    BY <2>1, <2>2, SetInduction
<1>7. f \in [0..n -> Int]
  BY <1>4, <1>6
<1> QED
  BY <1>1, <1>5, <1>7 DEF IsRunning

-----------------------------------------------------------------------------
\* Changing one amount changes the sum by the difference.
THEOREM TotalChange ==
  ASSUME NEW n \in Nat, NEW a, NEW b, NEW k \in 1..n,
         \A i \in 1..n : a[i] \in Int /\ b[i] \in Int,
         \A i \in 1..n : i # k => b[i] = a[i]
  PROVE  Total(b, n) = Total(a, n) + (b[k] - a[k])
<1>1. PICK f : IsRunning(f, a, n) /\ Total(a, n) = f[n]
  BY TotalRuns
<1>2. PICK g : IsRunning(g, b, n) /\ Total(b, n) = g[n]
  BY TotalRuns
<1> DEFINE S == {i \in Nat : i <= n =>
                   g[i] = f[i] + (IF k <= i THEN b[k] - a[k] ELSE 0)}
<1>3. 0 \in S
  BY <1>1, <1>2 DEF IsRunning
<1>4. ASSUME NEW i \in Nat, i \in S PROVE i + 1 \in S
  <2>1. SUFFICES ASSUME i + 1 <= n
        PROVE g[i + 1] = f[i + 1] + (IF k <= i + 1 THEN b[k] - a[k] ELSE 0)
    OBVIOUS
  <2>2. /\ g[i + 1] = g[i] + b[i + 1] /\ f[i + 1] = f[i] + a[i + 1]
        /\ f[i] \in Int
    <3>1. i + 1 \in 1..n /\ i \in 0..n /\ (i + 1) - 1 = i
      BY <2>1
    <3> QED
      BY <1>1, <1>2, <3>1 DEF IsRunning
  <2>3. g[i] = f[i] + (IF k <= i THEN b[k] - a[k] ELSE 0)
    BY <1>4, <2>1
  <2>4. i + 1 # k => b[i + 1] = a[i + 1]
    BY <2>1
  <2>5. a[i + 1] \in Int /\ b[i + 1] \in Int /\ a[k] \in Int /\ b[k] \in Int
    BY <2>1
  <2> HIDE DEF S
  <2>6. CASE i + 1 = k
    BY <2>2, <2>3, <2>5, <2>6
  <2>7. CASE i + 1 # k
    <3>1. k <= i + 1 <=> k <= i
      BY <2>7
    <3> QED
      BY <2>2, <2>3, <2>4, <2>5, <2>7, <3>1
  <2> QED
    BY <2>6, <2>7
<1> HIDE DEF S
<1>5. n \in S
  BY <1>3, <1>4, SetInduction
<1> QED
  BY <1>1, <1>2, <1>5 DEF S

\* A sum of nothing but zeros is zero.
THEOREM TotalZero ==
  ASSUME NEW n \in Nat, NEW a, \A i \in 1..n : a[i] = 0
  PROVE  Total(a, n) = 0
<1>1. PICK f : IsRunning(f, a, n) /\ Total(a, n) = f[n]
  BY TotalRuns
<1> DEFINE S == {i \in Nat : i <= n => f[i] = 0}
<1>2. 0 \in S
  BY <1>1 DEF IsRunning
<1>3. ASSUME NEW i \in Nat, i \in S PROVE i + 1 \in S
  <2>1. i + 1 <= n => f[i + 1] = f[(i + 1) - 1] + a[i + 1]
    BY <1>1 DEF IsRunning
  <2> QED
    BY <1>3, <2>1
<1> HIDE DEF S
<1>4. n \in S
  BY <1>2, <1>3, SetInduction
<1> QED
  BY <1>1, <1>4 DEF S

\* A sum of amounts none of which is negative is not negative.
THEOREM TotalNat ==
  ASSUME NEW n \in Nat, NEW a, \A i \in 1..n : a[i] \in Nat
  PROVE  Total(a, n) \in Nat
<1>1. PICK f : IsRunning(f, a, n) /\ Total(a, n) = f[n]
  BY TotalRuns
<1> DEFINE S == {i \in Nat : i <= n => f[i] \in Nat}
<1>2. 0 \in S
  BY <1>1 DEF IsRunning
<1>3. ASSUME NEW i \in Nat, i \in S PROVE i + 1 \in S
  <2>1. i + 1 <= n => f[i + 1] = f[(i + 1) - 1] + a[i + 1] /\ a[i + 1] \in Nat
    BY <1>1 DEF IsRunning
  <2> QED
    BY <1>3, <2>1
<1> HIDE DEF S
<1>4. n \in S
  BY <1>2, <1>3, SetInduction
<1> QED
  BY <1>1, <1>4 DEF S

-----------------------------------------------------------------------------
(* Withdrawals and what they sum to.                                        *)

(* What a row adds to the sum of one status and to what is outstanding.     *)
In(row, m, status) ==
  IF row.masterId = m /\ row.status = status THEN row.amount ELSE 0

Share(row, m) == In(row, m, "paid") + In(row, m, "pending")

LEMMA AmountsAreNat ==
  ASSUME NEW row \in Withdrawal, NEW m, NEW status
  PROVE  In(row, m, status) \in Nat
BY DEF In, Withdrawal

LEMMA WithdrawnType ==
  ASSUME withdrawal \in [Slips -> Withdrawal], NEW m, NEW status
  PROVE  withdrawn(m, status) \in Nat
<1> DEFINE a == [w \in Slips |-> In(withdrawal[w], m, status)]
<1>1. \A w \in 1..MaxSlips : a[w] \in Nat
  BY AmountsAreNat DEF Slips
<1>2. withdrawn(m, status) = Total(a, MaxSlips)
  BY DEF withdrawn, In
<1> HIDE DEF a
<1> QED
  BY <1>1, <1>2, TotalNat, SlipsAssumption

LEMMA OutstandingType ==
  ASSUME withdrawal \in [Slips -> Withdrawal], NEW m
  PROVE  Outstanding(m) \in Nat
<1>1. withdrawn(m, "paid") \in Nat /\ withdrawn(m, "pending") \in Nat
  BY WithdrawnType
<1> QED
  BY <1>1 DEF Outstanding

LEMMA OutstandingTypes == TypeOK => \A n : Outstanding(n) \in Nat
BY OutstandingType DEF TypeOK

\* A step that changes one row changes a sum by what that row adds to it.
LEMMA WithdrawnChange ==
  ASSUME withdrawal \in [Slips -> Withdrawal],
         withdrawal' \in [Slips -> Withdrawal],
         NEW w \in Slips, \A v \in Slips : v # w => withdrawal'[v] = withdrawal[v],
         NEW m, NEW status
  PROVE  withdrawn(m, status)' = withdrawn(m, status)
           + (In(withdrawal'[w], m, status) - In(withdrawal[w], m, status))
<1> DEFINE a == [v \in Slips |-> In(withdrawal[v], m, status)]
           b == [v \in Slips |-> In(withdrawal'[v], m, status)]
<1>1. \A v \in 1..MaxSlips : a[v] \in Int /\ b[v] \in Int
  BY AmountsAreNat DEF Slips
<1>2. \A v \in 1..MaxSlips : v # w => b[v] = a[v]
  BY DEF Slips
<1>3. withdrawn(m, status) = Total(a, MaxSlips)
  BY DEF withdrawn, In
<1>4. withdrawn(m, status)' = Total(b, MaxSlips)
  BY DEF withdrawn, In
<1>5. /\ a[w] = In(withdrawal[w], m, status)
      /\ b[w] = In(withdrawal'[w], m, status)
  OBVIOUS
<1>6. w \in 1..MaxSlips
  BY DEF Slips
<1> HIDE DEF a, b
<1>7. Total(b, MaxSlips) = Total(a, MaxSlips) + (b[w] - a[w])
  BY <1>1, <1>2, <1>6, TotalChange, SlipsAssumption
<1> QED
  BY <1>3, <1>4, <1>5, <1>7

LEMMA OutstandingChange ==
  ASSUME withdrawal \in [Slips -> Withdrawal],
         withdrawal' \in [Slips -> Withdrawal],
         NEW w \in Slips, \A v \in Slips : v # w => withdrawal'[v] = withdrawal[v],
         NEW m
  PROVE  Outstanding(m)' = Outstanding(m)
           + (Share(withdrawal'[w], m) - Share(withdrawal[w], m))
<1> DEFINE P(s) == withdrawn(m, s)' = withdrawn(m, s)
                     + (In(withdrawal'[w], m, s) - In(withdrawal[w], m, s))
<1>1. P("paid") /\ P("pending")
  BY WithdrawnChange
<1>2. \A s \in {"paid", "pending"} :
        /\ withdrawn(m, s) \in Nat /\ In(withdrawal'[w], m, s) \in Nat
        /\ In(withdrawal[w], m, s) \in Nat
  BY WithdrawnType, AmountsAreNat
<1> QED
  BY <1>1, <1>2 DEF Outstanding, Share

LEMMA OutstandingUnchanged ==
  ASSUME UNCHANGED withdrawal, NEW m
  PROVE  Outstanding(m)' = Outstanding(m)
BY DEF Outstanding, withdrawn

LEMMA RequestTypes ==
  TypeOK => \A r \in Requests :
              /\ req[r].amount \in Nat
              /\ req[r].masterId \in Masters \cup {NoMaster}
              /\ req[r].masterId = NoMaster <=> req[r] = Idle
<1> SUFFICES ASSUME TypeOK, NEW r \in Requests
             PROVE  /\ req[r].amount \in Nat
                    /\ req[r].masterId \in Masters \cup {NoMaster}
                    /\ req[r].masterId = NoMaster <=> req[r] = Idle
  OBVIOUS
<1>1. CASE req[r] = Idle
  BY <1>1 DEF Idle
<1>2. CASE req[r] \in [masterId : Masters, amount : Nat]
  BY <1>2, MastersAssumption DEF Idle
<1> QED
  BY <1>1, <1>2 DEF TypeOK

LEMMA AmountTypes == TypeOK => \A p \in Requests : req[p].amount \in Nat
BY RequestTypes

-----------------------------------------------------------------------------
(* Type correctness.                                                        *)

LEMMA TypeInit == Init => TypeOK
BY DEF Init, TypeOK, NoSlip, Idle, NoAudit, Withdrawal

LEMMA Round2Type ==
  ASSUME NEW mills \in Int
  PROVE  round2(mills) \in Int
BY DEF round2

\* A step of reconcile() changes the types of nothing but what it has read.
Audits == [pc : {"idle", "paid", "pending"}, balance : [Masters -> Int]]

LEMMA AuditTypes ==
  ASSUME TypeOK, audit' \in Audits, UNCHANGED <<credited, withdrawal, req>>,
         alarm' \subseteq Masters
  PROVE  TypeOK'
BY DEF TypeOK, Audits

LEMMA TypeStep == TypeOK /\ [Next]_vars => TypeOK'
<1> SUFFICES ASSUME TypeOK, [Next]_vars PROVE TypeOK'
  OBVIOUS
<1> USE DEF TypeOK
<1>1. ASSUME NEW m \in Masters, Earn(m) PROVE TypeOK'
  <2>1. PICK e \in Earnings : credited' = [credited EXCEPT ![m] = @ + e]
    BY <1>1 DEF Earn
  <2> QED
    BY <1>1, <2>1, AmountsAssumption DEF Earn
<1>2. ASSUME NEW r \in Requests, NEW m \in Masters, CreateCheck(r, m)
      PROVE  TypeOK'
  <2>1. PICK mills \in Asked :
          /\ round2(mills) > 0
          /\ req' = [req EXCEPT ![r] = [masterId |-> m, amount |-> round2(mills)]]
    BY <1>2 DEF CreateCheck
  <2>2. round2(mills) \in Nat
    <3>1. round2(mills) \in Int
      BY Round2Type, AmountsAssumption
    <3> QED
      BY <2>1, <3>1
  <2>3. req' \in [Requests -> {Idle} \cup [masterId : Masters, amount : Nat]]
    BY <2>1, <2>2
  <2> QED
    BY <1>2, <2>3 DEF CreateCheck
<1>3. ASSUME NEW r \in Requests, CreateInsert(r) PROVE TypeOK'
  <2>1. PICK w \in Slips :
          withdrawal' = [withdrawal EXCEPT ![w] =
                           [ masterId |-> req[r].masterId,
                             amount |-> req[r].amount, status |-> "pending" ]]
    BY <1>3 DEF CreateInsert
  <2>2. withdrawal' \in [Slips -> Withdrawal]
    <3>1. [ masterId |-> req[r].masterId, amount |-> req[r].amount,
            status |-> "pending" ] \in Withdrawal
      BY RequestTypes DEF Withdrawal
    <3> QED
      BY <2>1, <3>1
  <2>3. req' \in [Requests -> {Idle} \cup [masterId : Masters, amount : Nat]]
    BY <1>3 DEF CreateInsert, Idle
  <2> QED
    BY <1>3, <2>2, <2>3 DEF CreateInsert
<1>4. ASSUME NEW r \in Requests, CreateFails(r) PROVE TypeOK'
  BY <1>4 DEF CreateFails, Idle
<1>5. ASSUME NEW w \in Slips, markPaid(w) \/ reject(w) PROVE TypeOK'
  <2>1. PICK s \in {"paid", "rejected"} :
          withdrawal' = [withdrawal EXCEPT ![w].status = s]
    BY <1>5 DEF markPaid, reject
  <2>2. [withdrawal[w] EXCEPT !.status = s] \in Withdrawal
    <3>1. withdrawal[w] \in Withdrawal
      OBVIOUS
    <3> QED
      BY <3>1 DEF Withdrawal
  <2>3. withdrawal' = [withdrawal EXCEPT ![w] = [withdrawal[w] EXCEPT !.status = s]]
    BY <2>1
  <2>4. withdrawal' \in [Slips -> Withdrawal]
    BY <2>2, <2>3
  <2> QED
    BY <1>5, <2>4 DEF markPaid, reject
<1>6. CASE Audit
  <2>1. \A m \in Masters : withdrawn(m, "paid") \in Int
    BY WithdrawnType
  <2>2. CASE AuditCredited
    <3>1. audit' = [pc |-> "paid", balance |-> credited]
      BY <2>2 DEF AuditCredited
    <3>2. credited \in [Masters -> Int]
      OBVIOUS
    <3>3. audit' \in Audits
      BY <3>1, <3>2 DEF Audits
    <3> QED
      BY <2>2, <3>3, AuditTypes DEF AuditCredited
  <2>3. CASE AuditPaid
    <3> DEFINE b == [m \in Masters |-> audit.balance[m] - withdrawn(m, "paid")]
    <3>1. audit' = [pc |-> "pending", balance |-> b]
      BY <2>3 DEF AuditPaid
    <3>2. b \in [Masters -> Int]
      BY <2>1
    <3> HIDE DEF b
    <3>3. audit' \in Audits
      BY <3>1, <3>2 DEF Audits
    <3> QED
      BY <2>3, <3>3, AuditTypes DEF AuditPaid
  <2>4. CASE AuditReport
    BY <2>4 DEF AuditReport, NoAudit
  <2> QED
    BY <1>6, <2>2, <2>3, <2>4 DEF Audit
<1>7. CASE UNCHANGED vars
  BY <1>7 DEF vars
<1> QED
  BY <1>1, <1>2, <1>3, <1>4, <1>5, <1>6, <1>7 DEF Next

\* Balances, rows, requests and reports keep their types: no amount that is
\* recorded is negative, whatever was asked for.
THEOREM TypeCorrect == Spec => []TypeOK
<1>1. Init => TypeOK
  BY TypeInit
<1>2. TypeOK /\ [Next]_vars => TypeOK'
  BY TypeStep
<1> QED
  BY <1>1, <1>2, PTL DEF Spec

-----------------------------------------------------------------------------
(* Balances.                                                                *)

\* What the steps do to the rows: they insert a checked amount, judge a pending
\* row, or leave the rows alone.
LEMMA Inserted ==
  ASSUME TypeOK, TypeOK', NEW r \in Requests, CreateInsert(r), NEW m
  PROVE  Outstanding(m)' = Outstanding(m)
           + (IF req[r].masterId = m THEN req[r].amount ELSE 0)
<1>1. PICK w \in Slips :
        /\ withdrawal[w] = NoSlip
        /\ withdrawal' = [withdrawal EXCEPT ![w] =
                            [ masterId |-> req[r].masterId,
                              amount |-> req[r].amount, status |-> "pending" ]]
  BY DEF CreateInsert
<1>2. /\ Share(withdrawal[w], m) = 0
      /\ Share(withdrawal'[w], m) =
           (IF req[r].masterId = m THEN req[r].amount ELSE 0)
  <2>1. withdrawal'[w] = [ masterId |-> req[r].masterId,
                           amount |-> req[r].amount, status |-> "pending" ]
    BY <1>1 DEF TypeOK
  <2> QED
    BY <1>1, <2>1, RequestTypes DEF Share, In, NoSlip
<1>3. Outstanding(m)' = Outstanding(m)
        + (Share(withdrawal'[w], m) - Share(withdrawal[w], m))
  BY <1>1, OutstandingChange DEF TypeOK
<1>4. Outstanding(m) \in Nat /\ req[r].amount \in Nat
  BY OutstandingTypes, RequestTypes
<1> QED
  BY <1>2, <1>3, <1>4

LEMMA Judged ==
  ASSUME TypeOK, TypeOK', NEW w \in Slips, markPaid(w) \/ reject(w), NEW m
  PROVE  Outstanding(m)' <= Outstanding(m)
<1>1. PICK s \in {"paid", "rejected"} :
        withdrawal' = [withdrawal EXCEPT ![w].status = s]
  BY DEF markPaid, reject
<1>2. withdrawal[w].status = "pending" /\ withdrawal[w].amount \in Nat
  BY DEF markPaid, reject, Reviewable, TypeOK, Withdrawal
<1>3. /\ withdrawal'[w].masterId = withdrawal[w].masterId
      /\ withdrawal'[w].amount = withdrawal[w].amount
      /\ withdrawal'[w].status = s
  BY <1>1 DEF TypeOK, Withdrawal
<1>4. Share(withdrawal'[w], m) <= Share(withdrawal[w], m)
  BY <1>2, <1>3 DEF Share, In
<1>5. Outstanding(m)' = Outstanding(m)
        + (Share(withdrawal'[w], m) - Share(withdrawal[w], m))
  BY <1>1, OutstandingChange DEF TypeOK
<1>6. /\ Outstanding(m) \in Nat /\ Share(withdrawal'[w], m) \in Int
      /\ Share(withdrawal[w], m) \in Int
  <2>1. withdrawal'[w] \in Withdrawal /\ withdrawal[w] \in Withdrawal
    BY DEF TypeOK
  <2> QED
    BY <2>1, OutstandingType, AmountsAreNat DEF TypeOK, Share
<1> QED
  BY <1>4, <1>5, <1>6

LEMMA EarnStep ==
  ASSUME TypeOK, NEW n \in Masters, Earn(n)
  PROVE  \A m \in Masters : credited'[m] >= credited[m]
<1>1. PICK e \in Earnings : credited' = [credited EXCEPT ![n] = @ + e]
  BY DEF Earn
<1>2. e \in Nat
  BY AmountsAssumption
<1> QED
  BY <1>1, <1>2 DEF TypeOK

LEMMA OutstandingInit == Init => \A m : Outstanding(m) = 0
<1> SUFFICES ASSUME Init, NEW m PROVE Outstanding(m) = 0
  OBVIOUS
<1>1. \A s \in {"paid", "pending"} : withdrawn(m, s) = 0
  <2> TAKE s \in {"paid", "pending"}
  <2> DEFINE a == [w \in Slips |-> IF /\ withdrawal[w].masterId = m
                                     /\ withdrawal[w].status = s
                                  THEN withdrawal[w].amount ELSE 0]
  <2>1. \A w \in 1..MaxSlips : a[w] = 0
    BY DEF Init, NoSlip, Slips
  <2>2. withdrawn(m, s) = Total(a, MaxSlips)
    BY DEF withdrawn
  <2> HIDE DEF a
  <2> QED
    BY <2>1, <2>2, TotalZero, SlipsAssumption
<1> QED
  BY <1>1 DEF Outstanding

LEMMA BalanceInit == Init => BalanceInv
<1> SUFFICES ASSUME Init PROVE BalanceInv
  OBVIOUS
<1>1. \A m \in OneAtATime : m \in Masters /\ m # NoMaster
  BY OneAtATimeAssumption, MastersAssumption
<1>2. \A m \in Masters : Outstanding(m) <= credited[m]
  BY OutstandingInit DEF Init
<1>3. \A r \in Requests : req[r].masterId = NoMaster
  BY DEF Init, Idle
<1> QED
  BY <1>1, <1>2, <1>3 DEF BalanceInv

\* What the invariant says of one master.
Covered(m) ==
  /\ Outstanding(m) <= credited[m]
  /\ \A r \in Requests : req[r].masterId = m =>
       /\ Outstanding(m) + req[r].amount <= credited[m]
       /\ \A q \in Requests : req[q].masterId = m => q = r

\* A master who asks once at a time keeps what a request was promised until it
\* inserts.
LEMMA CoveredStep ==
  ASSUME TypeOK, TypeOK', NEW m \in OneAtATime, Covered(m), [Next]_vars
  PROVE  Covered(m)'
<1> USE DEF Covered
<1>0. m \in Masters /\ m # NoMaster
  BY OneAtATimeAssumption, MastersAssumption
<1>1. Outstanding(m) \in Nat /\ credited[m] \in Nat /\ credited'[m] \in Nat
  BY <1>0, OutstandingTypes DEF TypeOK
<1>2. \A r \in Requests : req[r].amount \in Nat
  BY AmountTypes
<1>3. ASSUME UNCHANGED <<withdrawal, req>>, credited'[m] >= credited[m]
      PROVE  Covered(m)'
  <2>1. Outstanding(m)' = Outstanding(m)
    BY <1>3, OutstandingUnchanged
  <2> QED
    BY <1>1, <1>2, <1>3, <2>1
<1>4. ASSUME NEW n \in Masters, Earn(n) PROVE Covered(m)'
  BY <1>0, <1>3, <1>4, EarnStep DEF Earn
<1>5. ASSUME NEW r \in Requests, NEW n \in Masters, CreateCheck(r, n)
      PROVE  Covered(m)'
  <2>1. UNCHANGED <<withdrawal, credited>>
    BY <1>5 DEF CreateCheck
  <2>2. Outstanding(m)' = Outstanding(m)
    BY <2>1, OutstandingUnchanged
  <2>3. PICK a \in Int : /\ a <= available(n)
                         /\ req' = [req EXCEPT ![r] = [ masterId |-> n,
                                                        amount |-> a ]]
    BY <1>5, Round2Type, AmountsAssumption DEF CreateCheck
  <2>4. /\ req'[r] = [masterId |-> n, amount |-> a]
        /\ \A q \in Requests : q # r => req'[q] = req[q]
    BY <2>3 DEF TypeOK
  <2>5. req[r].masterId # m
    BY <1>0, <1>5 DEF CreateCheck, Idle
  <2>6. CASE n # m
    BY <2>1, <2>2, <2>4, <2>5, <2>6
  <2>7. CASE n = m
    <3>1. Outstanding(m) + a <= credited[m]
      <4>1. /\ withdrawn(m, "paid") \in Nat /\ withdrawn(m, "pending") \in Nat
            /\ Outstanding(m) = withdrawn(m, "paid") + withdrawn(m, "pending")
        BY WithdrawnType DEF TypeOK, Outstanding
      <4>2. a <= credited[m] - (withdrawn(m, "paid") + withdrawn(m, "pending"))
        BY <2>3, <2>7 DEF available
      <4> QED
        BY <1>1, <4>1, <4>2
    <3>2. \A q \in Requests : req[q].masterId # m
      BY <1>5, <2>7 DEF CreateCheck
    <3> QED
      BY <2>1, <2>2, <2>4, <2>7, <3>1, <3>2
  <2> QED
    BY <2>6, <2>7
<1>6. ASSUME NEW r \in Requests, CreateInsert(r) PROVE Covered(m)'
  <2>1. req' = [req EXCEPT ![r] = Idle] /\ UNCHANGED credited
    BY <1>6 DEF CreateInsert
  <2>2. Outstanding(m)' = Outstanding(m)
          + (IF req[r].masterId = m THEN req[r].amount ELSE 0)
    BY <1>6, Inserted
  <2>3. \A q \in Requests : req'[q].masterId = m => q # r /\ req'[q] = req[q]
    BY <1>0, <2>1 DEF TypeOK, Idle
  <2>4. CASE req[r].masterId = m
    <3>1. \A q \in Requests : req'[q].masterId # m
      BY <2>3, <2>4
    <3>2. Outstanding(m)' <= credited'[m]
      BY <2>1, <2>2, <2>4
    <3> QED
      BY <3>1, <3>2
  <2>5. CASE req[r].masterId # m
    <3>1. Outstanding(m)' = Outstanding(m)
      BY <1>1, <2>2, <2>5
    <3> QED
      BY <2>1, <2>3, <3>1
  <2> QED
    BY <2>4, <2>5
<1>7. ASSUME NEW r \in Requests, CreateFails(r) PROVE Covered(m)'
  <2>1. /\ req' = [req EXCEPT ![r] = Idle]
        /\ UNCHANGED <<credited, withdrawal>>
    BY <1>7 DEF CreateFails
  <2>2. Outstanding(m)' = Outstanding(m)
    BY <2>1, OutstandingUnchanged
  <2>3. \A q \in Requests : req'[q].masterId = m => q # r /\ req'[q] = req[q]
    BY <1>0, <2>1 DEF TypeOK, Idle
  <2> QED
    BY <2>1, <2>2, <2>3
<1>8. ASSUME NEW w \in Slips, markPaid(w) \/ reject(w) PROVE Covered(m)'
  <2>1. UNCHANGED <<credited, req>>
    BY <1>8 DEF markPaid, reject
  <2>2. Outstanding(m)' <= Outstanding(m)
    BY <1>8, Judged
  <2>3. Outstanding(m)' \in Int
    <3>1. withdrawal' \in [Slips -> Withdrawal]
      BY DEF TypeOK
    <3>2. PICK w2 \in Slips : \A v \in Slips :
                                v # w2 => withdrawal'[v] = withdrawal[v]
      BY <1>8 DEF markPaid, reject, TypeOK
    <3>3. /\ Share(withdrawal'[w2], m) \in Int
          /\ Share(withdrawal[w2], m) \in Int
      BY <3>1, AmountsAreNat DEF TypeOK, Share
    <3> QED
      BY <1>1, <3>1, <3>2, <3>3, OutstandingChange DEF TypeOK
  <2> QED
    BY <1>1, <1>2, <2>1, <2>2, <2>3
<1>9. CASE Audit \/ UNCHANGED vars
  <2>1. UNCHANGED <<credited, withdrawal, req>>
    BY <1>9 DEF Audit, AuditCredited, AuditPaid, AuditReport, vars
  <2> QED
    BY <1>1, <1>3, <2>1
<1> QED
  BY <1>4, <1>5, <1>6, <1>7, <1>8, <1>9 DEF Next

\* The promise of a balance checked is kept until the insert.
THEOREM BalanceInvariant == Spec => []BalanceInv
<1>1. Init => BalanceInv
  BY BalanceInit
<1>2. TypeOK /\ TypeOK' /\ BalanceInv /\ [Next]_vars => BalanceInv'
  <2> SUFFICES ASSUME TypeOK, TypeOK', BalanceInv, [Next]_vars
               PROVE  BalanceInv'
    OBVIOUS
  <2>1. \A m \in OneAtATime : Covered(m)
    BY DEF BalanceInv, Covered
  <2>2. \A m \in OneAtATime : Covered(m)'
    BY <2>1, CoveredStep
  <2> QED
    BY <2>2 DEF BalanceInv, Covered
<1> QED
  BY <1>1, <1>2, TypeCorrect, PTL DEF Spec

\* A master whose requests do not overlap is never paid or promised more than
\* was credited, for any number of masters, requests and rows, and whatever the
\* requests of other masters do.
THEOREM SingleIsCovered == Spec => []OutstandingCovered
<1>1. BalanceInv => OutstandingCovered
  BY DEF BalanceInv, OutstandingCovered
<1> QED
  BY <1>1, BalanceInvariant, PTL

-----------------------------------------------------------------------------
(* Overlapping requests.                                                    *)

\* A sum of amounts that are at most c, one of them 0, is at most n - 1 times c.
LEMMA TotalBounded ==
  ASSUME NEW n \in Nat, NEW a, NEW c \in Nat, NEW k \in 1..n,
         \A i \in 1..n : a[i] \in Nat /\ a[i] <= c, a[k] = 0
  PROVE  Total(a, n) + c <= n * c
<1>1. PICK f : IsRunning(f, a, n) /\ Total(a, n) = f[n]
  BY TotalRuns, SMTT(30)
<1> DEFINE S == {i \in Nat : i <= n =>
                   f[i] + (IF k <= i THEN c ELSE 0) <= i * c}
<1>2. 0 \in S
  BY <1>1 DEF IsRunning
<1>3. ASSUME NEW i \in Nat, i \in S PROVE i + 1 \in S
  <2>1. SUFFICES ASSUME i + 1 <= n
        PROVE f[i + 1] + (IF k <= i + 1 THEN c ELSE 0) <= (i + 1) * c
    OBVIOUS
  <2>2. f[i + 1] = f[i] + a[i + 1] /\ f[i] \in Int
    <3>1. i + 1 \in 1..n /\ i \in 0..n /\ (i + 1) - 1 = i
      BY <2>1
    <3> QED
      BY <1>1, <3>1 DEF IsRunning
  <2>3. f[i] + (IF k <= i THEN c ELSE 0) <= i * c
    BY <1>3, <2>1
  <2>4. a[i + 1] \in Nat /\ a[i + 1] <= c
    BY <2>1
  <2>5. (i + 1) * c = i * c + c /\ i * c \in Int
    BY SMT
  <2> HIDE DEF S
  <2>6. CASE i + 1 = k
    <3>1. a[i + 1] = 0 /\ ~(k <= i)
      BY <2>6
    <3> QED
      BY <2>2, <2>3, <2>5, <2>6, <3>1
  <2>7. CASE i + 1 # k
    <3>1. k <= i + 1 <=> k <= i
      BY <2>7
    <3> QED
      BY <2>2, <2>3, <2>4, <2>5, <3>1
  <2> QED
    BY <2>6, <2>7
<1> HIDE DEF S
<1>4. n \in S
  BY <1>2, <1>3, SetInduction
<1>5. f[n] + c <= n * c
  BY <1>4 DEF S
<1> QED
  BY <1>1, <1>5

Claim(q, m) == IF q.masterId = m THEN q.amount ELSE 0

LEMMA ClaimsAreNat ==
  TypeOK => \A p \in Requests : \A n : Claim(req[p], n) \in Nat
BY RequestTypes DEF Claim

LEMMA PromisedType == TypeOK => \A m : Promised(m) \in Nat
<1> SUFFICES ASSUME TypeOK, NEW m PROVE Promised(m) \in Nat
  OBVIOUS
<1> DEFINE a == [r \in Requests |-> Claim(req[r], m)]
<1>1. \A r \in 1..MaxRequests : a[r] \in Nat
  BY ClaimsAreNat DEF Requests
<1>2. Promised(m) = Total(a, MaxRequests)
  BY DEF Promised, Claim
<1> HIDE DEF a
<1> QED
  BY <1>1, <1>2, TotalNat, SlipsAssumption

\* A step that changes one request changes what is promised by its claim.
LEMMA PromisedChange ==
  ASSUME TypeOK, TypeOK', NEW r \in Requests, NEW q,
         req' = [req EXCEPT ![r] = q], NEW m
  PROVE  Promised(m)' = Promised(m) + (Claim(q, m) - Claim(req[r], m))
<1> DEFINE a == [p \in Requests |-> Claim(req[p], m)]
           b == [p \in Requests |-> Claim(req'[p], m)]
<1>1. \A p \in Requests : Claim(req[p], m) \in Nat
  BY ClaimsAreNat
<1>2. \A p \in Requests : Claim(req'[p], m) \in Nat
  <2>1. (\A p \in Requests : req[p].amount \in Nat)'
    BY AmountTypes, PTL
  <2> QED
    BY <2>1 DEF Claim
<1>3. \A p \in 1..MaxRequests : a[p] \in Int /\ b[p] \in Int
  BY <1>1, <1>2 DEF Requests
<1>4. \A p \in 1..MaxRequests : p # r => b[p] = a[p]
  BY DEF TypeOK, Requests
<1>5. Promised(m) = Total(a, MaxRequests)
  BY DEF Promised, Claim
<1>6. Promised(m)' = Total(b, MaxRequests)
  BY DEF Promised, Claim
<1>7. a[r] = Claim(req[r], m) /\ b[r] = Claim(q, m)
  BY DEF TypeOK
<1>8. r \in 1..MaxRequests
  BY DEF Requests
<1> HIDE DEF a, b
<1>9. Total(b, MaxRequests) = Total(a, MaxRequests) + (b[r] - a[r])
  BY <1>3, <1>4, <1>8, TotalChange, SlipsAssumption
<1> QED
  BY <1>5, <1>6, <1>7, <1>9

LEMMA PromisedUnchanged ==
  ASSUME UNCHANGED req, NEW m
  PROVE  Promised(m)' = Promised(m)
BY DEF Promised

LEMMA OverdraftInit == Init => OverdraftInv
<1> SUFFICES ASSUME Init, NEW m \in Masters
             PROVE  /\ Outstanding(m) + Promised(m) <= MaxRequests * credited[m]
                    /\ \A r \in Requests :
                         req[r].masterId = m => req[r].amount <= credited[m]
  BY DEF OverdraftInv
<1>1. credited[m] = 0 /\ \A r \in Requests : req[r] = Idle
  BY DEF Init
<1>2. Outstanding(m) = 0
  BY OutstandingInit
<1>3. Promised(m) = 0
  <2> DEFINE a == [r \in Requests |-> IF req[r].masterId = m THEN req[r].amount
                                      ELSE 0]
  <2>1. \A r \in 1..MaxRequests : a[r] = 0
    BY <1>1 DEF Requests, Idle
  <2>2. Promised(m) = Total(a, MaxRequests)
    BY DEF Promised
  <2> HIDE DEF a
  <2> QED
    BY <2>1, <2>2, TotalZero, SlipsAssumption
<1> QED
  BY <1>1, <1>2, <1>3, MastersAssumption, SlipsAssumption DEF Idle

\* A request that leaves its slot and what it leaves outstanding.
LEMMA OverdraftLeave ==
  ASSUME TypeOK, TypeOK', OverdraftInv, NEW r \in Requests,
         req' = [req EXCEPT ![r] = Idle], UNCHANGED credited,
         \A m \in Masters : Outstanding(m)' <= Outstanding(m) + Claim(req[r], m)
  PROVE  OverdraftInv'
<1>0. (\A n : Outstanding(n) \in Nat)'
  BY OutstandingTypes, PTL
<1> SUFFICES ASSUME NEW m \in Masters
             PROVE  /\ Outstanding(m)' + Promised(m)'
                         <= MaxRequests * credited'[m]
                    /\ \A q \in Requests :
                         req'[q].masterId = m => req'[q].amount <= credited'[m]
  BY DEF OverdraftInv
<1>1. Claim(Idle, m) = 0
  BY DEF Claim, Idle
<1>2. Promised(m)' = Promised(m) + (Claim(Idle, m) - Claim(req[r], m))
  BY PromisedChange
<1>3. Outstanding(m) + Promised(m) <= MaxRequests * credited[m]
  BY DEF OverdraftInv
<1>4. /\ Claim(req[r], m) \in Int /\ Promised(m) \in Int
      /\ Outstanding(m) \in Int /\ MaxRequests * credited[m] \in Int
  BY ClaimsAreNat, PromisedType, OutstandingTypes, SlipsAssumption DEF TypeOK
<1>5. Outstanding(m)' \in Int
  BY <1>0
<1>6. Outstanding(m)' <= Outstanding(m) + Claim(req[r], m)
  OBVIOUS
<1>7. Outstanding(m)' + Promised(m)' <= MaxRequests * credited[m]
  BY <1>1, <1>2, <1>3, <1>4, <1>5, <1>6
<1>8. ASSUME NEW q \in Requests, req'[q].masterId = m
      PROVE  req'[q].amount <= credited'[m]
  <2>1. req'[q] = req[q]
    BY <1>8, MastersAssumption DEF TypeOK, Idle
  <2> QED
    BY <1>8, <2>1 DEF OverdraftInv
<1> QED
  BY <1>7, <1>8

LEMMA OverdraftStep ==
  ASSUME TypeOK, TypeOK', OverdraftInv, [Next]_vars
  PROVE  OverdraftInv'
<1>0. (\A n : Outstanding(n) \in Nat)'
  BY OutstandingTypes, PTL
<1>1. \A m : Outstanding(m) \in Nat /\ Promised(m) \in Nat
  BY OutstandingTypes, PromisedType
<1>2. \A m \in Masters :
        /\ credited[m] \in Nat /\ credited'[m] \in Nat
        /\ MaxRequests * credited[m] \in Int
        /\ MaxRequests * credited'[m] \in Int
  BY SlipsAssumption DEF TypeOK
<1>3. ASSUME UNCHANGED <<withdrawal, req>>,
             \A m \in Masters : credited'[m] >= credited[m]
      PROVE  OverdraftInv'
  <2> SUFFICES ASSUME NEW m \in Masters
               PROVE  /\ Outstanding(m)' + Promised(m)'
                           <= MaxRequests * credited'[m]
                      /\ \A q \in Requests :
                           req'[q].masterId = m => req'[q].amount <= credited'[m]
    BY DEF OverdraftInv
  <2>1. Outstanding(m)' = Outstanding(m) /\ Promised(m)' = Promised(m)
    BY <1>3, OutstandingUnchanged, PromisedUnchanged
  <2>2. MaxRequests * credited[m] <= MaxRequests * credited'[m]
    BY <1>2, <1>3, SlipsAssumption
  <2>3. Outstanding(m) + Promised(m) <= MaxRequests * credited[m]
    BY DEF OverdraftInv
  <2>4. Outstanding(m)' + Promised(m)' <= MaxRequests * credited'[m]
    BY <1>1, <1>2, <2>1, <2>2, <2>3
  <2>5. ASSUME NEW q \in Requests, req'[q].masterId = m
        PROVE  req'[q].amount <= credited'[m]
    <3>1. req[q].amount <= credited[m] /\ req[q].amount \in Nat
      BY <1>3, <2>5, AmountTypes DEF OverdraftInv
    <3> QED
      BY <1>2, <1>3, <3>1
  <2> QED
    BY <2>4, <2>5
<1>4. ASSUME NEW n \in Masters, Earn(n) PROVE OverdraftInv'
  BY <1>3, <1>4, EarnStep DEF Earn
<1>5. ASSUME NEW r \in Requests, NEW n \in Masters, CreateCheck(r, n)
      PROVE  OverdraftInv'
  <2>1. UNCHANGED <<withdrawal, credited>> /\ req[r] = Idle
    BY <1>5 DEF CreateCheck
  <2>2. PICK a \in Int : /\ a <= available(n)
                         /\ req' = [req EXCEPT ![r] = [ masterId |-> n,
                                                        amount |-> a ]]
    BY <1>5, Round2Type, AmountsAssumption DEF CreateCheck
  <2>3. Outstanding(n) + a <= credited[n]
    BY <1>1, <1>2, <2>2 DEF available, Outstanding
  <2> DEFINE q == [masterId |-> n, amount |-> a]
  <2>4. ASSUME NEW m \in Masters
        PROVE  /\ Outstanding(m)' + Promised(m)'
                    <= MaxRequests * credited'[m]
               /\ \A p \in Requests :
                    req'[p].masterId = m => req'[p].amount <= credited'[m]
    <3>1. Outstanding(m)' = Outstanding(m)
      BY <2>1, OutstandingUnchanged
    <3>2. Promised(m)' = Promised(m) + (Claim(q, m) - Claim(req[r], m))
      BY <2>2, PromisedChange
    <3>3. Claim(req[r], m) = 0
      BY <2>1 DEF Claim, Idle
    <3>4. Outstanding(m) + Promised(m) <= MaxRequests * credited[m]
      BY DEF OverdraftInv
    <3>5. CASE m # n
      <4>1. Claim(q, m) = 0
        BY <3>5 DEF Claim
      <4>2. Promised(m)' = Promised(m)
        BY <1>1, <3>2, <3>3, <4>1
      <4>3. \A p \in Requests : req'[p].masterId = m => req'[p] = req[p]
        BY <2>2, <3>5 DEF TypeOK
      <4> QED
        BY <2>1, <3>1, <3>4, <4>2, <4>3 DEF OverdraftInv
    <3>6. CASE m = n
      <4>1. Claim(q, m) = a
        BY <3>6 DEF Claim
      <4>2. Promised(m)' = Promised(m) + a
        BY <1>1, <3>2, <3>3, <4>1
      <4> DEFINE b == [p \in Requests |-> Claim(req[p], m)]
      <4>3. Promised(m) = Total(b, MaxRequests)
        BY DEF Promised, Claim
      <4>4. /\ r \in 1..MaxRequests /\ b[r] = 0
            /\ \A p \in 1..MaxRequests : b[p] \in Nat /\ b[p] <= credited[m]
        <5>1. \A p \in Requests : Claim(req[p], m) <= credited[m]
          BY <1>2 DEF OverdraftInv, Claim
        <5> QED
          BY <3>3, <5>1, ClaimsAreNat DEF Requests
      <4> HIDE DEF b
      <4>5. Promised(m) + credited[m] <= MaxRequests * credited[m]
        BY <1>2, <4>3, <4>4, TotalBounded, SlipsAssumption
      <4>6. Outstanding(m)' + Promised(m)' <= MaxRequests * credited[m]
        BY <1>1, <1>2, <2>3, <3>1, <3>6, <4>2, <4>5
      <4>7. ASSUME NEW p \in Requests, req'[p].masterId = m
            PROVE  req'[p].amount <= credited[m]
        <5>1. CASE p = r
          <6>1. req'[p] = q
            BY <2>2, <5>1 DEF TypeOK
          <6> QED
            BY <1>1, <1>2, <2>3, <3>6, <6>1
        <5>2. CASE p # r
          BY <2>2, <4>7, <5>2 DEF OverdraftInv, TypeOK
        <5> QED
          BY <5>1, <5>2
      <4> QED
        BY <2>1, <4>6, <4>7
    <3> QED
      BY <3>5, <3>6
  <2> QED
    BY <2>4 DEF OverdraftInv
<1>6. ASSUME NEW r \in Requests, CreateInsert(r) PROVE OverdraftInv'
  <2>1. \A m : Outstanding(m)' = Outstanding(m) + Claim(req[r], m)
    BY <1>6, Inserted DEF Claim
  <2>2. \A m \in Masters : Outstanding(m)' <= Outstanding(m) + Claim(req[r], m)
    BY <1>1, <2>1, ClaimsAreNat
  <2> QED
    BY <1>6, <2>2, OverdraftLeave DEF CreateInsert
<1>7. ASSUME NEW r \in Requests, CreateFails(r) PROVE OverdraftInv'
  <2>1. \A m : Outstanding(m)' = Outstanding(m)
    BY <1>7, OutstandingUnchanged DEF CreateFails
  <2>2. \A m \in Masters : Outstanding(m)' <= Outstanding(m) + Claim(req[r], m)
    BY <1>1, <2>1, ClaimsAreNat
  <2> QED
    BY <1>7, <2>2, OverdraftLeave DEF CreateFails
<1>8. ASSUME NEW w \in Slips, markPaid(w) \/ reject(w) PROVE OverdraftInv'
  <2>1. UNCHANGED <<credited, req>>
    BY <1>8 DEF markPaid, reject
  <2>2. ASSUME NEW m \in Masters
        PROVE  Outstanding(m)' + Promised(m)' <= MaxRequests * credited[m]
    <3>1. Outstanding(m)' <= Outstanding(m) /\ Promised(m)' = Promised(m)
      BY <1>8, <2>1, Judged, PromisedUnchanged
    <3>2. Outstanding(m)' \in Nat
      BY <1>0
    <3>3. Outstanding(m) + Promised(m) <= MaxRequests * credited[m]
      BY DEF OverdraftInv
    <3> QED
      BY <1>1, <1>2, <3>1, <3>2, <3>3
  <2> QED
    BY <2>1, <2>2 DEF OverdraftInv
<1>9. CASE Audit \/ UNCHANGED vars
  <2>1. UNCHANGED <<credited, withdrawal, req>>
    BY <1>9 DEF Audit, AuditCredited, AuditPaid, AuditReport, vars
  <2>2. \A m \in Masters : credited'[m] >= credited[m]
    BY <1>2, <2>1
  <2> QED
    BY <1>3, <2>1, <2>2
<1> QED
  BY <1>4, <1>5, <1>6, <1>7, <1>8, <1>9 DEF Next

\* The invariant behind the bound on an overdraft.
THEOREM OverdraftInvariant == Spec => []OverdraftInv
<1>1. Init => OverdraftInv
  BY OverdraftInit
<1>2. TypeOK /\ TypeOK' /\ OverdraftInv /\ [Next]_vars => OverdraftInv'
  BY OverdraftStep
<1> QED
  BY <1>1, <1>2, TypeCorrect, PTL DEF Spec

\* However many requests overlap, a master gets at most as many times what was
\* credited as there are requests under way at once.
THEOREM OverdraftIsBounded == Spec => []OverdraftBounded
<1>1. TypeOK /\ OverdraftInv => OverdraftBounded
  <2> SUFFICES ASSUME TypeOK, OverdraftInv, NEW m \in Masters
               PROVE  Outstanding(m) <= MaxRequests * credited[m]
    BY DEF OverdraftBounded
  <2>1. Outstanding(m) + Promised(m) <= MaxRequests * credited[m]
    BY DEF OverdraftInv
  <2>2. /\ Outstanding(m) \in Nat /\ Promised(m) \in Nat
        /\ MaxRequests * credited[m] \in Int
    BY OutstandingTypes, PromisedType, SlipsAssumption DEF TypeOK
  <2> QED
    BY <2>1, <2>2
<1> QED
  BY <1>1, TypeCorrect, OverdraftInvariant, PTL

-----------------------------------------------------------------------------
\* A withdrawal keeps its master and amount and is judged once.
THEOREM SlipIsFinal == Spec => SlipFinal
<1> DEFINE Final ==
      \A w \in Slips : withdrawal'[w] # withdrawal[w] =>
        \/ withdrawal[w] = NoSlip /\ withdrawal'[w].status = "pending"
        \/ /\ withdrawal[w].status = "pending"
           /\ withdrawal'[w].status \in {"paid", "rejected"}
           /\ withdrawal'[w].masterId = withdrawal[w].masterId
           /\ withdrawal'[w].amount = withdrawal[w].amount
<1>1. TypeOK /\ [Next]_vars => [Final]_vars
  <2> SUFFICES ASSUME TypeOK, [Next]_vars, NEW w \in Slips,
                      withdrawal'[w] # withdrawal[w]
               PROVE  \/ withdrawal[w] = NoSlip /\ withdrawal'[w].status = "pending"
                      \/ /\ withdrawal[w].status = "pending"
                         /\ withdrawal'[w].status \in {"paid", "rejected"}
                         /\ withdrawal'[w].masterId = withdrawal[w].masterId
                         /\ withdrawal'[w].amount = withdrawal[w].amount
    OBVIOUS
  <2>1. ASSUME NEW r \in Requests, CreateInsert(r)
        PROVE  withdrawal[w] = NoSlip /\ withdrawal'[w].status = "pending"
    BY <2>1 DEF CreateInsert, TypeOK
  <2>2. ASSUME NEW v \in Slips, markPaid(v) \/ reject(v)
        PROVE  /\ withdrawal[w].status = "pending"
               /\ withdrawal'[w].status \in {"paid", "rejected"}
               /\ withdrawal'[w].masterId = withdrawal[w].masterId
               /\ withdrawal'[w].amount = withdrawal[w].amount
    <3>1. v = w
      BY <2>2 DEF markPaid, reject, TypeOK
    <3>2. withdrawal[w] \in Withdrawal
      BY DEF TypeOK
    <3> QED
      BY <2>2, <3>1, <3>2 DEF markPaid, reject, Reviewable, TypeOK, Withdrawal
  <2>3. CASE Audit \/ UNCHANGED vars
    BY <2>3 DEF Audit, AuditCredited, AuditPaid, AuditReport, vars
  <2> QED
    BY <2>1, <2>2, <2>3 DEF Next, Earn, CreateCheck, CreateFails
<1> QED
  BY <1>1, TypeCorrect, PTL DEF Spec, SlipFinal

=============================================================================
