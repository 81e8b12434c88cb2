----------------------------- MODULE Withdrawals -----------------------------
(***************************************************************************)
(* withdrawals.service: masters ask for their balance, which the server     *)
(* computes from the credited settlements and the withdrawals so far;       *)
(* administrators pay out or reject. reconcile() of settlements.service     *)
(* looks for masters who took out more than was credited.                   *)
(*                                                                         *)
(* A transaction of create() reads one snapshot and inserts at its end: the *)
(* reads lock nothing. reconcile() reads in statements of their own.        *)
(* Amounts are cents; an amount asked for is in tenths of a cent.           *)
(***************************************************************************)
EXTENDS Sums

CONSTANTS
  Masters,            \* masters
  NoMaster,           \* an idle request's master
  MaxRequests,        \* bound: requests of withdrawals under way at once
  MaxSlips,           \* bound: rows of withdrawal
  Asked,              \* amounts in the requests
  Earnings,           \* amounts a settlement credits
  MaxCredited,        \* bound: nothing is credited beyond it
  OneAtATime          \* masters whose requests never overlap

ASSUME MastersAssumption == NoMaster \notin Masters
ASSUME AmountsAssumption == Asked \subseteq Int /\ Earnings \subseteq Nat
ASSUME SlipsAssumption ==
  MaxRequests \in Nat /\ MaxSlips \in Nat /\ MaxCredited \in Nat
ASSUME OneAtATimeAssumption == OneAtATime \subseteq Masters

VARIABLES
  credited,    \* per master: sum of the credited settlements
  withdrawal,  \* the rows of withdrawal
  req,         \* create() between its reads and its insert
  audit,       \* reconcile() and what it has read
  alarm        \* masters in the last report of negative_balance

vars == <<credited, withdrawal, req, audit, alarm>>

Requests == 1..MaxRequests
Slips == 1..MaxSlips

Withdrawal ==
  [ masterId : Masters \cup {NoMaster}, amount : Nat,
    status : {"none", "pending", "paid", "rejected"} ]

NoSlip == [masterId |-> NoMaster, amount |-> 0, status |-> "none"]

Idle == [masterId |-> NoMaster, amount |-> 0]

NoAudit == [pc |-> "idle", balance |-> [m \in Masters |-> 0]]

\* _sum of the amounts of master m's withdrawals with the given status.
withdrawn(m, status) ==
  Total([w \in Slips |-> IF /\ withdrawal[w].masterId = m
                            /\ withdrawal[w].status = status
                         THEN withdrawal[w].amount ELSE 0], MaxSlips)

\* Paid out or frozen.
Outstanding(m) == withdrawn(m, "paid") + withdrawn(m, "pending")

Init ==
  /\ credited = [m \in Masters |-> 0]
  /\ withdrawal = [w \in Slips |-> NoSlip]
  /\ req = [r \in Requests |-> Idle]
  /\ audit = NoAudit
  /\ alarm = {}

-----------------------------------------------------------------------------
\* A settlement of the master is credited; none is ever taken back (Platform).
Earn(m) ==
  /\ \E e \in Earnings :
       /\ credited[m] + e <= MaxCredited
       /\ credited' = [credited EXCEPT ![m] = @ + e]
  /\ UNCHANGED <<withdrawal, req, audit, alarm>>

round2(mills) == (mills + 5) \div 10

\* Mutant: what is pending is not frozen.
availableUnfrozen(m) == credited[m] - withdrawn(m, "paid")

available(m) == credited[m] - (withdrawn(m, "paid") + withdrawn(m, "pending"))

\* create: the amount is positive and within the balance of the snapshot.
CreateCheck(r, m) ==
  /\ req[r] = Idle
  /\ m \in OneAtATime => \A q \in Requests : req[q].masterId # m
  /\ \E mills \in Asked :
       LET amount == round2(mills) IN
       /\ amount > 0
       /\ amount <= available(m)
       /\ req' = [req EXCEPT ![r] = [masterId |-> m, amount |-> amount]]
  /\ UNCHANGED <<credited, withdrawal, audit, alarm>>

CreateInsert(r) ==
  /\ req[r] # Idle
  /\ \E w \in Slips :
       /\ withdrawal[w] = NoSlip
       /\ \A v \in 1..(w - 1) : withdrawal[v] # NoSlip
       /\ withdrawal' = [withdrawal EXCEPT ![w] =
                           [ masterId |-> req[r].masterId,
                             amount |-> req[r].amount, status |-> "pending" ]]
  /\ req' = [req EXCEPT ![r] = Idle]
  /\ UNCHANGED <<credited, audit, alarm>>

\* The transaction is rolled back: an error, a lost connection, a restart.
CreateFails(r) ==
  /\ req[r] # Idle
  /\ req' = [req EXCEPT ![r] = Idle]
  /\ UNCHANGED <<credited, withdrawal, audit, alarm>>

\* Mutant: update by id, without the status in the where clause.
ReviewableById(w) == withdrawal[w] # NoSlip

\* updateMany where the withdrawal is still pending.
Reviewable(w) == withdrawal[w].status = "pending"

markPaid(w) ==
  /\ Reviewable(w)
  /\ withdrawal' = [withdrawal EXCEPT ![w].status = "paid"]
  /\ UNCHANGED <<credited, req, audit, alarm>>

reject(w) ==
  /\ Reviewable(w)
  /\ withdrawal' = [withdrawal EXCEPT ![w].status = "rejected"]
  /\ UNCHANGED <<credited, req, audit, alarm>>

-----------------------------------------------------------------------------
(* reconcile(), third check: three reads one after the other.               *)

AuditCredited ==
  /\ audit.pc = "idle"
  /\ audit' = [audit EXCEPT !.pc = "paid", !.balance = credited]
  /\ UNCHANGED <<credited, withdrawal, req, alarm>>

AuditPaid ==
  /\ audit.pc = "paid"
  /\ audit' = [audit EXCEPT !.pc = "pending",
                            !.balance = [m \in Masters |->
                                           @[m] - withdrawn(m, "paid")]]
  /\ UNCHANGED <<credited, withdrawal, req, alarm>>

\* Mutant: frozen amounts are not counted.
NegativePaid(m) == audit.balance[m] < 0

NegativeBalance(m) == audit.balance[m] - withdrawn(m, "pending") < 0

AuditReport ==
  /\ audit.pc = "pending"
  /\ alarm' = {m \in Masters : NegativeBalance(m)}
  /\ audit' = NoAudit
  /\ UNCHANGED <<credited, withdrawal, req>>

Audit == AuditCredited \/ AuditPaid \/ AuditReport

-----------------------------------------------------------------------------
Next ==
  \/ \E m \in Masters : Earn(m)
  \/ \E r \in Requests, m \in Masters : CreateCheck(r, m)
  \/ \E r \in Requests : CreateInsert(r) \/ CreateFails(r)
  \/ \E w \in Slips : markPaid(w) \/ reject(w)
  \/ Audit

Spec == Init /\ [][Next]_vars

\* setInterval starts reconcile() again and again and the data base answers.
FairSpec == Spec /\ WF_vars(Audit)

-----------------------------------------------------------------------------
(* Properties                                                               *)

TypeOK ==
  /\ credited \in [Masters -> Nat]
  /\ withdrawal \in [Slips -> Withdrawal]
  /\ req \in [Requests -> {Idle} \cup [masterId : Masters, amount : Nat]]
  /\ audit \in [pc : {"idle", "paid", "pending"}, balance : [Masters -> Int]]
  /\ alarm \subseteq Masters

\* What a master was paid and what is frozen for payment was earned before: the
\* balance create() checks against, "防并发超提".
NeverOverdrawn == \A m \in Masters : Outstanding(m) <= credited[m]

\* It holds for a master who asks once at a time, whatever the others do.
OutstandingCovered == \A m \in OneAtATime : Outstanding(m) <= credited[m]

\* Why: what a request of such a master was promised stays available until it
\* inserts.
BalanceInv ==
  \A m \in OneAtATime :
    /\ Outstanding(m) <= credited[m]
    /\ \A r \in Requests : req[r].masterId = m =>
         /\ Outstanding(m) + req[r].amount <= credited[m]
         /\ \A q \in Requests : req[q].masterId = m => q = r

\* Requests that overlap may each take what was credited, and no more: once the
\* balance is used up, no later request is accepted.
OverdraftBounded ==
  \A m \in Masters : Outstanding(m) <= MaxRequests * credited[m]

\* Why: every request was checked against a balance that held at most what was
\* credited, and the last one checked found enough.
Promised(m) ==
  Total([r \in Requests |-> IF req[r].masterId = m THEN req[r].amount ELSE 0],
        MaxRequests)

OverdraftInv ==
  \A m \in Masters :
    /\ Outstanding(m) + Promised(m) <= MaxRequests * credited[m]
    /\ \A r \in Requests : req[r].masterId = m => req[r].amount <= credited[m]

\* A withdrawal keeps master and amount and is paid or rejected once, whatever
\* several administrators do with it.
SlipFinal ==
  [][\A w \in Slips : withdrawal'[w] # withdrawal[w] =>
       \/ withdrawal[w] = NoSlip /\ withdrawal'[w].status = "pending"
       \/ /\ withdrawal[w].status = "pending"
          /\ withdrawal'[w].status \in {"paid", "rejected"}
          /\ withdrawal'[w].masterId = withdrawal[w].masterId
          /\ withdrawal'[w].amount = withdrawal[w].amount]_vars

\* A master who stays overdrawn is in every report from some point on.
OverdraftNoticed ==
  \A m \in Masters :
    <>[](Outstanding(m) > credited[m]) => <>[](m \in alarm)

=============================================================================
