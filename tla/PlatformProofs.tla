---------------------------- MODULE PlatformProofs ----------------------------
(***************************************************************************)
(* Safety of Platform for every set of orders, masters and requests, every   *)
(* price and every commission snapshot: the split of an amount; the types;   *)
(* the inductive invariant of rows and requests and what follows from it     *)
(* (the escrow contract included); the invariants of the money, each under   *)
(* the weakest exclusion of overlapping requests it holds for; what a        *)
(* confirmed order and the pages of its people are owed.                     *)
(***************************************************************************)
EXTENDS OrderPages, TLAPS

-----------------------------------------------------------------------------
(* The split of an order's amount, for every amount, rate and tier.         *)

\* A share of an amount, rounded, is never negative nor more than the amount.
LEMMA Mul2Bounds ==
  ASSUME NEW a \in Nat, NEW ratio \in 0..Bp
  PROVE  mul2(a, ratio) \in 0..a
<1>1. a * ratio \in Nat /\ a * ratio <= a * 10000
  <2>1. ratio \in Nat /\ ratio <= 10000
    BY DEF Bp
  <2>2. a * ratio \in Nat
    BY <2>1
  <2>3. a * 10000 - a * ratio = a * (10000 - ratio)
    BY <2>1
  <2>4. a * (10000 - ratio) >= 0
    BY <2>1
  <2>5. QED
    BY <2>1, <2>2, <2>3, <2>4
<1>2. (a * ratio + 5000) \div 10000 \in 0..a
  <2> DEFINE p == a * ratio
  <2>1. p \in Nat /\ p <= a * 10000
    BY <1>1
  <2> HIDE DEF p
  <2>2. (p + 5000) \div 10000 \in 0..a
    BY <2>1
  <2>3. QED
    BY <2>2 DEF p
<1>3. QED
  BY <1>2 DEF mul2, Bp

LEMMA Clamp01Bounds ==
  ASSUME NEW n \in Int
  PROVE  clamp01(n) \in 0..Bp /\ clamp01(n) \in Int
<1>1. CASE n < 0
  BY <1>1 DEF clamp01, Bp
<1>2. CASE n > 10000
  BY <1>2 DEF clamp01, Bp
<1>3. CASE n \in 0..10000
  BY <1>3 DEF clamp01, Bp
<1>4. QED
  BY <1>1, <1>2, <1>3

LEMMA Min2Type ==
  ASSUME NEW a \in Int, NEW b \in Int
  PROVE  min2(a, b) \in Int
BY DEF min2

\* The greatest of some positions of the life cycle is one of them.
LEMMA LastBreakPoint ==
  ASSUME NEW points \in SUBSET (1..6), points # {}
  PROVE  Max(points) \in points
<1>1. \E x \in points : \A y \in points : x >= y
  <2>0. points \subseteq {1, 2, 3, 4, 5, 6}
    OBVIOUS
  <2>1. CASE 6 \in points
    BY <2>1
  <2>2. CASE 6 \notin points /\ 5 \in points
    BY <2>2
  <2>3. CASE 6 \notin points /\ 5 \notin points /\ 4 \in points
    BY <2>3
  <2>4. CASE 6 \notin points /\ 5 \notin points /\ 4 \notin points /\ 3 \in points
    BY <2>4
  <2>5. CASE points \subseteq {1, 2} /\ 2 \in points
    BY <2>5
  <2>6. CASE points = {1}
    BY <2>6
  <2>7. QED
    BY <2>0, <2>1, <2>2, <2>3, <2>4, <2>5, <2>6
<1>2. QED
  BY <1>1 DEF Max

\* The tiers a split uses are clamped, whatever an operator stored.
LEMMA NormalizedTiers ==
  ASSUME NEW snap, IsSnapshot(snap)
  PROVE  \A s \in DOMAIN normalizeTiers(snap.refundTiers) :
           normalizeTiers(snap.refundTiers)[s] \in Int
<1> DEFINE raw == snap.refundTiers
<1>1. ASSUME NEW s \in DOMAIN raw
      PROVE  clamp01(raw[s]) \in Int
  <2>1. raw[s] \in Int
    BY <1>1 DEF IsSnapshot
  <2> HIDE DEF raw
  <2>2. QED
    BY <2>1, Clamp01Bounds
<1>2. \A s \in DOMAIN DEFAULT_TIERS : DEFAULT_TIERS[s] \in Int
  BY DEF DEFAULT_TIERS
<1> HIDE DEF raw
<1>3. \A s \in DOMAIN normalizeTiers(raw) : normalizeTiers(raw)[s] \in Int
  BY <1>1, <1>2 DEF normalizeTiers
<1>4. QED
  BY <1>3 DEF raw

\* The ratio refunded lies between nothing and everything, in any status.
LEMMA TierRatioBounds ==
  ASSUME NEW snap, IsSnapshot(snap), NEW stage
  PROVE  resolveTierRatio(stage, normalizeTiers(snap.refundTiers)) \in 0..Bp
<1> DEFINE tiers  == normalizeTiers(snap.refundTiers)
           points == BreakPoints(stage, tiers)
<1>1. CASE points = {}
  BY <1>1 DEF resolveTierRatio, Bp
<1>2. CASE points # {}
  <2>1. points \in SUBSET (1..6)
    BY DEF BreakPoints, CANCELLABLE_LIFECYCLE
  <2>2. Max(points) \in points
    BY <1>2, <2>1, LastBreakPoint
  <2>3. CANCELLABLE_LIFECYCLE[Max(points)] \in DOMAIN tiers
    BY <2>2 DEF BreakPoints
  <2>4. tiers[CANCELLABLE_LIFECYCLE[Max(points)]] \in Int
    BY <2>3, NormalizedTiers
  <2>5. QED
    BY <1>2, <2>4, Clamp01Bounds DEF resolveTierRatio
<1>3. QED
  BY <1>1, <1>2

LEMMA RefundRatioBounds ==
  ASSUME NEW snap, IsSnapshot(snap), NEW stage
  PROVE  refundRatio(stage, snap) \in 0..Bp
<1> DEFINE tiers == normalizeTiers(snap.refundTiers)
<1>1. resolveTierRatio(stage, tiers) \in 0..Bp
  BY TierRatioBounds
<1> HIDE DEF tiers
<1>2. clamp01(min2(resolveTierRatio(stage, tiers), Bp - snap.platformRate))
        \in 0..Bp
  <2>0. snap.platformRate \in 0..Bp
    BY DEF IsSnapshot
  <2>1. min2(resolveTierRatio(stage, tiers), Bp - snap.platformRate) \in Int
    <3> DEFINE tier == resolveTierRatio(stage, tiers)
               rate == snap.platformRate
    <3>1. tier \in 0..Bp /\ rate \in 0..Bp
      BY <1>1, <2>0
    <3> HIDE DEF tier, rate
    <3>2. tier \in Int /\ Bp - rate \in Int
      BY <3>1 DEF Bp
    <3>3. min2(tier, Bp - rate) \in Int
      BY <3>2, Min2Type
    <3>4. QED
      BY <3>3 DEF tier, rate
  <2>2. QED
    BY <2>1, Clamp01Bounds
<1>3. refundRatio(stage, snap) \in
        { Bp, resolveTierRatio(stage, tiers),
          clamp01(min2(resolveTierRatio(stage, tiers),
                       Bp - snap.platformRate)) }
  BY DEF refundRatio, tiers
<1>4. Bp \in 0..Bp
  BY DEF Bp
<1>5. QED
  BY <1>1, <1>2, <1>3, <1>4

\* Accepted order: commission and earnings are what the customer paid, and neither
\* is negative.
THEOREM SplitNormalConserves ==
  ASSUME NEW amount \in Nat, NEW snap, IsSnapshot(snap)
  PROVE  LET split == splitNormal(amount, snap)
         IN  /\ split.platformFee \in 0..amount
             /\ split.masterAmount \in 0..amount
             /\ split.platformFee + split.masterAmount = amount
<1>1. mul2(amount, snap.platformRate) \in 0..amount
  BY Mul2Bounds DEF IsSnapshot
<1>2. QED
  BY <1>1 DEF splitNormal

\* Refunded order: the three parts are what the customer paid, none is negative,
\* under every refund policy, rate, tier and in every status.
THEOREM SplitRefundConserves ==
  ASSUME NEW amount \in Nat, NEW snap, IsSnapshot(snap), NEW stage
  PROVE  LET split == splitRefund(amount, stage, snap)
         IN  /\ split.refundAmount \in 0..amount
             /\ split.platformKeep \in 0..amount
             /\ split.masterCompensation \in 0..amount
             /\ split.refundAmount + split.platformKeep
                  + split.masterCompensation = amount
<1> DEFINE refund == mul2(amount, refundRatio(stage, snap))
           keep   == amount - refund
           full   == mul2(amount, snap.platformRate)
           kept   == IF snap.refundPolicy = "keep_commission"
                     THEN min2(keep, full) ELSE mul2(keep, snap.platformRate)
<1>1. refund \in 0..amount
  BY RefundRatioBounds, Mul2Bounds
<1>2. keep \in 0..amount
  BY <1>1
<1>3. snap.platformRate \in 0..Bp
  BY DEF IsSnapshot
<1>4. full \in 0..amount
  BY <1>3, Mul2Bounds
<1>5. mul2(keep, snap.platformRate) \in 0..keep
  <2> HIDE DEF keep
  <2>1. keep \in Nat
    BY <1>2
  <2>2. QED
    BY <1>3, <2>1, Mul2Bounds
<1> HIDE DEF refund, keep, full
<1>6. kept \in 0..keep
  BY <1>2, <1>4, <1>5 DEF min2
<1> HIDE DEF kept
<1>7. /\ splitRefund(amount, stage, snap).refundAmount = refund
      /\ splitRefund(amount, stage, snap).platformKeep = kept
      /\ splitRefund(amount, stage, snap).masterCompensation = keep - kept
  BY DEF splitRefund, refund, keep, kept, full
<1>8. keep = amount - refund
  BY DEF keep
<1>9. QED
  BY <1>1, <1>2, <1>6, <1>7, <1>8

\* A larger ratio gives a larger share.
LEMMA Mul2Monotone ==
  ASSUME NEW a \in Nat, NEW x \in 0..Bp, NEW y \in 0..Bp, x <= y
  PROVE  mul2(a, x) <= mul2(a, y)
<1>1. x \in Nat /\ y \in Nat
  BY DEF Bp
<1> DEFINE p == a * x
           q == a * y
<1>2. p \in Nat /\ q \in Nat /\ p <= q
  <2>1. a * y - a * x = a * (y - x)
    BY <1>1
  <2>2. a * (y - x) >= 0
    BY <1>1
  <2>3. QED
    BY <1>1, <2>1, <2>2
<1> HIDE DEF p, q
<1>3. (p + 5000) \div 10000 <= (q + 5000) \div 10000
  BY <1>2
<1>4. QED
  BY <1>3 DEF mul2, Bp, p, q

\* A share and the share of the rest, each rounded, exceed the whole by a cent at most.
LEMMA Mul2Rest ==
  ASSUME NEW a \in Nat, NEW x \in 0..Bp
  PROVE  mul2(a, x) + mul2(a, Bp - x) <= a + 1
<1>1. x \in Nat
  BY DEF Bp
<1> DEFINE p == a * x
<1>2. p \in Nat /\ a * (10000 - x) = 10000 * a - p /\ p <= 10000 * a
  <2>1. a * (10000 - x) >= 0
    BY DEF Bp
  <2>2. a * (10000 - x) = 10000 * a - p
    BY <1>1
  <2>3. QED
    BY <1>1, <2>1, <2>2
<1> HIDE DEF p
<1>3. (p + 5000) \div 10000 + (10000 * a - p + 5000) \div 10000 <= a + 1
  BY <1>2
<1>4. QED
  BY <1>2, <1>3 DEF mul2, Bp, p

\* What a rate leaves is a rate.
LEMMA RestBounds ==
  ASSUME NEW x \in 0..Bp
  PROVE  Bp - x \in 0..Bp
BY DEF Bp

\* Under keep_commission a refunded order leaves the platform the commission it would
\* have had of the accepted order, whatever the tier: to the cent, or a cent less where
\* commission and refund are both rounded up.
THEOREM CommissionIsKept ==
  ASSUME NEW amount \in Nat, NEW snap, IsSnapshot(snap), NEW stage,
         snap.refundPolicy = "keep_commission"
  PROVE  LET fee  == splitNormal(amount, snap).platformFee
             kept == splitRefund(amount, stage, snap).platformKeep
         IN  kept \in {fee - 1, fee}
<1> DEFINE fee    == mul2(amount, snap.platformRate)
           ratio  == refundRatio(stage, snap)
           refund == mul2(amount, ratio)
<1>1. snap.platformRate \in 0..Bp /\ Bp - snap.platformRate \in 0..Bp
  <2> DEFINE rate == snap.platformRate
  <2>1. rate \in 0..Bp
    BY DEF IsSnapshot
  <2> HIDE DEF rate
  <2>2. Bp - rate \in 0..Bp
    BY <2>1, RestBounds
  <2>3. QED
    BY <2>1, <2>2 DEF rate
<1>2. ratio \in 0..Bp /\ ratio <= Bp - snap.platformRate
  <2> DEFINE tier == resolveTierRatio(stage, normalizeTiers(snap.refundTiers))
  <2>1. ratio \in 0..Bp
    BY RefundRatioBounds
  <2>2. ratio = clamp01(min2(tier, Bp - snap.platformRate))
    BY DEF refundRatio
  <2>3. tier \in 0..Bp
    BY TierRatioBounds
  <2> DEFINE most == Bp - snap.platformRate
  <2> HIDE DEF tier, ratio, most
  <2>4. ratio <= most
    <3>1. most \in 0..Bp /\ ratio = clamp01(min2(tier, most))
      BY <1>1, <2>2 DEF most
    <3>2. QED
      BY <2>3, <3>1 DEF clamp01, min2, Bp
  <2>5. QED
    BY <2>1, <2>4 DEF most
<1>3. fee \in 0..amount /\ refund \in 0..amount
  BY <1>1, <1>2, Mul2Bounds
<1>4. refund + fee <= amount + 1
  <2> DEFINE rest == mul2(amount, Bp - snap.platformRate)
  <2>1. rest \in 0..amount
    BY <1>1, Mul2Bounds
  <2>2. refund <= rest
    BY <1>1, <1>2, Mul2Monotone
  <2>3. fee + rest <= amount + 1
    BY <1>1, Mul2Rest
  <2> HIDE DEF rest, refund, fee
  <2>4. QED
    BY <1>3, <2>1, <2>2, <2>3
<1>5. /\ splitRefund(amount, stage, snap).platformKeep = min2(amount - refund, fee)
      /\ splitNormal(amount, snap).platformFee = fee
  BY DEF splitRefund, splitNormal
<1> HIDE DEF refund, fee
<1>6. min2(amount - refund, fee) \in {fee - 1, fee}
  BY <1>3, <1>4 DEF min2
<1>7. QED
  BY <1>5, <1>6

-----------------------------------------------------------------------------
(* Types. What a step may do to a request is one of four shapes of req'.    *)

\* What a step may do to a request, in terms of types: the four shapes of req'.
ReqType(f) ==
  /\ f \in [Requests -> Request]
  /\ \A r \in Requests : f[r].pc # "idle" => f[r].o \in Orders

LEMMA BeginType ==
  ASSUME ReqType(req), NEW r \in Requests, NEW o \in Orders,
         NEW op \in Handlers, NEW pc \in {"load", "write", "enter", "lookup"},
         NEW stage \in OrderStatus \cup {NoStatus},
         TakeUp(r, op, o, pc, stage)
  PROVE  ReqType(req')
<1>1. /\ [Idle EXCEPT !.op = op, !.o = o, !.pc = pc, !.stage = stage] \in Request
      /\ [Idle EXCEPT !.op = op, !.o = o, !.pc = pc, !.stage = stage].o \in Orders
  BY DEF Idle, Request
<1>2. QED
  BY <1>1 DEF TakeUp, ReqType

LEMMA DoneType ==
  ASSUME ReqType(req), NEW r \in Requests, Done(r)
  PROVE  ReqType(req')
<1>1. Idle \in Request /\ Idle.pc = "idle"
  BY DEF Idle, Request, NoStatus
<1>2. QED
  BY <1>1 DEF Done, ReqType

\* Any change of a request under way that leaves its order alone.
LEMMA UpdateType ==
  ASSUME ReqType(req), NEW r \in Requests, NEW q \in Request,
         req[r].pc # "idle", q.o = req[r].o, req' = [req EXCEPT ![r] = q]
  PROVE  ReqType(req')
BY DEF ReqType

LEMMA GotoType ==
  ASSUME ReqType(req), NEW r \in Requests, req[r].pc # "idle",
         NEW pc \in {"load", "write", "provider"}, Goto(r, pc)
  PROVE  ReqType(req')
<1> DEFINE q == [req[r] EXCEPT !.pc = pc]
<1>1. req[r] \in Request
  BY DEF ReqType
<1>2. q \in Request /\ q.o = req[r].o
  BY <1>1 DEF Request
<1>3. req' = [req EXCEPT ![r] = q]
  BY DEF Goto
<1> HIDE DEF q
<1>4. QED
  BY <1>2, <1>3, UpdateType

-----------------------------------------------------------------------------
\* Types of the amounts a split computes.
LEMMA SplitTypes ==
  ASSUME NEW o \in Orders, NEW s
  PROVE  /\ splitRefund(Amount[o], s, Snapshot[o]).refundAmount \in Nat
         /\ splitRefund(Amount[o], s, Snapshot[o]).platformKeep \in Int
         /\ splitRefund(Amount[o], s, Snapshot[o]).masterCompensation \in Int
         /\ splitNormal(Amount[o], Snapshot[o]).platformFee \in Int
         /\ splitNormal(Amount[o], Snapshot[o]).masterAmount \in Int
<1>1. Amount[o] \in Nat /\ IsSnapshot(Snapshot[o])
  BY AmountAssumption, SnapshotAssumption
<1>2. QED
  BY <1>1, SplitRefundConserves, SplitNormalConserves

LEMMA SettlementTypes ==
  ASSUME TypeOK, NEW o \in Orders
  PROVE  /\ NoSettlement \in Settlement
         /\ Released(o) \in Settlement
         /\ \A s : Compensated(o, splitRefund(Amount[o], s, Snapshot[o]))
                    \in Settlement
<1>1. settlement[o] \in Settlement /\ masterId[o] \in Masters \cup {NoOne}
  BY DEF TypeOK
<1>2. NoSettlement \in Settlement
  BY DEF NoSettlement, Settlement
<1>3. Released(o) \in Settlement
  BY <1>1, SplitTypes DEF Released, Settlement
<1>4. ASSUME NEW s
      PROVE  Compensated(o, splitRefund(Amount[o], s, Snapshot[o])) \in Settlement
  BY <1>1, SplitTypes DEF Compensated, Settlement
<1>5. QED
  BY <1>2, <1>3, <1>4

-----------------------------------------------------------------------------
\* The disjuncts of Next, as the proofs below go through them.
LEMMA NextCases ==
  ASSUME Next
  PROVE  \/ \E o \in Orders : Capture(o)
         \/ \E r \in Requests :
              \/ Crash(r) \/ TransitionLoad(r) \/ TransitionRefused(r)
              \/ TransitionConflict(r) \/ ArriveCodeWrite(r) \/ ArriveCodeClear(r)
              \/ ConfirmCommit(r) \/ MoveCommit(r) \/ ChargeWrite(r)
              \/ ChargeFails(r) \/ HandleNotifyEnds(r)
              \/ PaidCommit(r) \/ RefundEnter(r) \/ RefundRefused(r)
              \/ RefundGuard(r) \/ ProviderRefund(r) \/ ProviderFails(r)
              \/ RefundCommit(r)
              \/ VerdictWrite(r) \/ VerdictConflict(r) \/ SyncWrite(r)
              \/ ReviewInsert(r) \/ ReviewDuplicate(r)
              \/ \E o \in Orders :
                   \/ \E m \in Masters : Claim(r, o, m)
                   \/ \E op \in Handlers : MoveStart(r, o, op)
                   \/ ArriveCodeStart(r, o) \/ ArriveStart(r, o)
                   \/ ConfirmStart(r, o) \/ CancelStart(r, o)
                   \/ ChargeStart(r, o) \/ NotifyStart(r, o)
                   \/ HandleNotifyStart(r, o) \/ RefundStart(r, o)
                   \/ \E op \in Handlers : VerdictStart(r, o, op)
                   \/ SyncStart(r, o) \/ ReviewStart(r, o)
BY DEF Next, Step, Start, OrdersStep, PaymentsStep, SettlementsStep, ReviewsStep,
       OrdersStart, PaymentsStart, SettlementsStart

\* Starting a handler writes no row and leaves the other requests alone.
LEMMA StartShape ==
  ASSUME NEW r \in Requests, NEW o \in Orders,
         \/ \E op \in Handlers : MoveStart(r, o, op)
         \/ ArriveCodeStart(r, o) \/ ArriveStart(r, o)
         \/ ConfirmStart(r, o) \/ CancelStart(r, o)
         \/ ChargeStart(r, o) \/ NotifyStart(r, o)
         \/ HandleNotifyStart(r, o) \/ RefundStart(r, o)
         \/ \E op \in Handlers : VerdictStart(r, o, op)
         \/ SyncStart(r, o) \/ ReviewStart(r, o)
  PROVE  /\ UNCHANGED <<orderRow, tables, channel>>
         /\ \E op \in Handlers, pc \in {"load", "write", "enter", "lookup"},
               stage \in PostPayStates \cup {NoStatus} :
              /\ Begin(r, op, o, pc, stage)
              /\ pc = "enter" <=> op = "refund"
              /\ stage # NoStatus => op = "cancel"
              /\ op = "sync" => status[o] \in CompletedStates
<1>1. CASE \E op \in Handlers : MoveStart(r, o, op)
  BY <1>1 DEF MoveStart, NoStatus
<1>2. CASE ArriveCodeStart(r, o)
  BY <1>2 DEF ArriveCodeStart, Handlers, NoStatus
<1>3. CASE ArriveStart(r, o)
  BY <1>3 DEF ArriveStart, Handlers, NoStatus
<1>4. CASE ConfirmStart(r, o)
  BY <1>4 DEF ConfirmStart, Handlers, NoStatus
<1>5. CASE CancelStart(r, o)
  <2> DEFINE stage == StageToRefund(o)
  <2>1. stage \in PostPayStates \cup {NoStatus}
    BY DEF StageToRefund
  <2>2. Begin(r, "cancel", o, "load", stage)
    BY <1>5 DEF CancelStart
  <2>3. UNCHANGED <<orderRow, tables, channel>>
    BY <1>5 DEF CancelStart
  <2> HIDE DEF stage
  <2>4. QED
    BY <2>1, <2>2, <2>3 DEF Handlers
<1>6. CASE ChargeStart(r, o)
  BY <1>6 DEF ChargeStart, Handlers, NoStatus
<1>7. CASE NotifyStart(r, o) \/ HandleNotifyStart(r, o)
  BY <1>7 DEF NotifyStart, HandleNotifyStart, Handlers, NoStatus
<1>8. CASE RefundStart(r, o)
  BY <1>8 DEF RefundStart, Handlers, NoStatus
<1>9. CASE \E op \in Handlers : VerdictStart(r, o, op)
  BY <1>9 DEF VerdictStart, NoStatus
<1>10. CASE SyncStart(r, o)
  BY <1>10 DEF SyncStart, Handlers, NoStatus
<1>11. CASE ReviewStart(r, o)
  BY <1>11 DEF ReviewStart, Handlers, NoStatus
<1>12. QED
  BY <1>1, <1>2, <1>3, <1>4, <1>5, <1>6, <1>7, <1>8, <1>9, <1>10, <1>11

\* Steps that only end their request.
LEMMA EndShape ==
  ASSUME NEW r \in Requests,
         \/ Crash(r) \/ TransitionRefused(r) \/ TransitionConflict(r)
         \/ RefundRefused(r) \/ VerdictConflict(r) \/ ReviewDuplicate(r)
         \/ ChargeFails(r) \/ ProviderFails(r) \/ HandleNotifyEnds(r)
  PROVE  Done(r) /\ UNCHANGED <<orderRow, tables, channel>>
BY DEF Crash, TransitionRefused, TransitionConflict, RefundRefused, VerdictConflict,
       ReviewDuplicate, ChargeFails, ProviderFails, HandleNotifyEnds

-----------------------------------------------------------------------------
(* Type correctness.                                                        *)

RowTypes ==
  /\ status     \in [Orders -> OrderStatus]
  /\ masterId   \in [Orders -> Masters \cup {NoOne}]
  /\ arriveCode \in [Orders -> BOOLEAN]
  /\ refundFrom \in [Orders -> OrderStatus \cup {NoStatus}]
  /\ payment    \in [Orders -> PaymentStatus]
  /\ settlement \in [Orders -> Settlement]
  /\ review     \in [Orders -> BOOLEAN]
  /\ payable    \in [Orders -> BOOLEAN]
  /\ captured   \in [Orders -> Nat]
  /\ returned   \in [Orders -> Nat]

LEMMA TypeParts == TypeOK <=> RowTypes /\ ReqType(req)
BY DEF TypeOK, RowTypes, ReqType

LEMMA TypePartsNext == TypeOK' <=> RowTypes' /\ ReqType(req')
BY DEF TypeOK, RowTypes, ReqType

LEMMA RowTypesSame ==
  ASSUME RowTypes, UNCHANGED <<orderRow, tables, channel>>
  PROVE  RowTypes'
BY DEF RowTypes, orderRow, tables, channel

LEMMA SetStatusTypes ==
  ASSUME RowTypes, NEW o \in Orders, NEW from \in OrderStatus,
         NEW to \in OrderStatus, SetStatus(o, from, to)
  PROVE  /\ status' \in [Orders -> OrderStatus]
         /\ refundFrom' \in [Orders -> OrderStatus \cup {NoStatus}]
BY DEF RowTypes, SetStatus

LEMMA TargetType == \A q : Target(q) \in OrderStatus
BY DEF Target, OrderStatus

LEMMA TypeStep ==
  ASSUME TypeOK, [Next]_vars
  PROVE  TypeOK'
<1>0. RowTypes /\ ReqType(req)
  BY TypeParts
<1>1. CASE UNCHANGED vars
  BY <1>0, <1>1, RowTypesSame, TypePartsNext DEF vars, ReqType
<1>2. ASSUME NEW o \in Orders, Capture(o)
      PROVE  TypeOK'
  <2>1. Amount[o] \in Nat
    BY AmountAssumption
  <2>2. RowTypes' /\ req' = req
    BY <1>0, <1>2, <2>1 DEF Capture, RowTypes, orderRow, tables
  <2>3. QED
    BY <1>0, <2>2, TypePartsNext
<1>3. ASSUME NEW r \in Requests,
             \/ Crash(r) \/ TransitionRefused(r) \/ TransitionConflict(r)
             \/ RefundRefused(r) \/ VerdictConflict(r) \/ ReviewDuplicate(r)
             \/ ChargeFails(r) \/ ProviderFails(r) \/ HandleNotifyEnds(r)
      PROVE  TypeOK'
  BY <1>0, <1>3, EndShape, RowTypesSame, DoneType, TypePartsNext
<1>4. ASSUME NEW r \in Requests, NEW o \in Orders,
             \/ \E op \in Handlers : MoveStart(r, o, op)
             \/ ArriveCodeStart(r, o) \/ ArriveStart(r, o)
             \/ ConfirmStart(r, o) \/ CancelStart(r, o)
             \/ ChargeStart(r, o) \/ NotifyStart(r, o)
             \/ HandleNotifyStart(r, o) \/ RefundStart(r, o)
             \/ \E op \in Handlers : VerdictStart(r, o, op)
             \/ SyncStart(r, o) \/ ReviewStart(r, o)
      PROVE  TypeOK'
  <2>1. UNCHANGED <<orderRow, tables, channel>>
    BY <1>4, StartShape
  <2>2. PICK op \in Handlers, pc \in {"load", "write", "enter", "lookup"},
             stage \in PostPayStates \cup {NoStatus} : Begin(r, op, o, pc, stage)
    BY <1>4, StartShape
  <2>3. stage \in OrderStatus \cup {NoStatus}
    BY DEF PostPayStates, OrderStatus
  <2>4. ReqType(req')
    BY <1>0, <2>2, <2>3, BeginType DEF Begin
  <2>5. QED
    BY <1>0, <2>1, <2>4, RowTypesSame, TypePartsNext
<1>5. ASSUME NEW r \in Requests, NEW o \in Orders, NEW m \in Masters,
             Claim(r, o, m)
      PROVE  TypeOK'
  BY <1>0, <1>5, TypePartsNext
     DEF Claim, SetStatus, RowTypes, OrderStatus, tables, channel
<1>6. ASSUME NEW r \in Requests, req[r].pc # "idle" PROVE req[r].o \in Orders
  BY <1>0, <1>6 DEF ReqType
<1>7. ASSUME NEW r \in Requests PROVE req[r] \in Request
  BY <1>0, <1>7 DEF ReqType
<1>8. ASSUME NEW r \in Requests, TransitionLoad(r)
      PROVE  TypeOK'
  <2> DEFINE q == [req[r] EXCEPT !.pc = "store", !.from = status[req[r].o]]
  <2>1. req[r].pc # "idle" /\ req[r].o \in Orders
    BY <1>6, <1>8 DEF TransitionLoad
  <2>2. q \in Request /\ q.o = req[r].o
    BY <1>0, <1>7, <2>1 DEF Request, RowTypes
  <2>3. req' = [req EXCEPT ![r] = q] /\ UNCHANGED <<orderRow, tables, channel>>
    BY <1>8 DEF TransitionLoad
  <2> HIDE DEF q
  <2>4. QED
    BY <1>0, <2>1, <2>2, <2>3, UpdateType, RowTypesSame, TypePartsNext
<1>9. ASSUME NEW r \in Requests, ArriveCodeWrite(r) \/ ArriveCodeClear(r)
      PROVE  TypeOK'
  <2>1. Done(r) /\ RowTypes'
    BY <1>0, <1>9
       DEF ArriveCodeWrite, ArriveCodeClear, RowTypes, tables, channel
  <2>2. QED
    BY <1>0, <2>1, DoneType, TypePartsNext
<1>10. ASSUME NEW r \in Requests, ConfirmCommit(r)
       PROVE  TypeOK'
  <2> DEFINE o == req[r].o
  <2>1. o \in Orders /\ req[r].from \in OrderStatus
    BY <1>0, <1>6, <1>10 DEF ConfirmCommit, At, RowMatches, RowTypes
  <2>2. Released(o) \in Settlement
    BY <2>1, SettlementTypes
  <2>3. settlement' = [settlement EXCEPT ![o] = Released(o)]
    BY <1>10 DEF ConfirmCommit
  <2>4. settlement' \in [Orders -> Settlement]
    BY <1>0, <2>2, <2>3 DEF RowTypes
  <2>5. /\ status' \in [Orders -> OrderStatus]
        /\ refundFrom' \in [Orders -> OrderStatus \cup {NoStatus}]
    BY <1>0, <1>10, <2>1, SetStatusTypes DEF ConfirmCommit, OrderStatus
  <2>6. Done(r) /\ UNCHANGED <<masterId, arriveCode, payment, review, channel>>
    BY <1>10 DEF ConfirmCommit
  <2>7. QED
    BY <1>0, <2>4, <2>5, <2>6, DoneType, TypePartsNext DEF RowTypes, channel
<1>11. ASSUME NEW r \in Requests, MoveCommit(r)
       PROVE  TypeOK'
  <2> DEFINE o == req[r].o
             q == [req[r] EXCEPT !.op = "refund", !.pc = "enter"]
  <2>1. req[r].pc # "idle" /\ o \in Orders /\ req[r].from \in OrderStatus
    BY <1>0, <1>6, <1>11 DEF MoveCommit, At, RowMatches, RowTypes
  <2>2. /\ status' \in [Orders -> OrderStatus]
        /\ refundFrom' \in [Orders -> OrderStatus \cup {NoStatus}]
    BY <1>0, <1>11, <2>1, SetStatusTypes, TargetType DEF MoveCommit
  <2>3. RowTypes'
    BY <1>0, <1>11, <2>2 DEF MoveCommit, RowTypes, tables, channel
  <2>4. q \in Request /\ q.o = o
    <3>1. req[r] \in Request
      BY <1>7
    <3>2. q.o = o /\ q.op = "refund" /\ q.pc = "enter"
      BY <3>1 DEF Request
    <3>3. "refund" \in Handlers
      BY DEF Handlers
    <3>4. QED
      BY <3>1, <3>2, <3>3 DEF Request
  <2>5. Goto(r, "write") \/ req' = [req EXCEPT ![r] = q] \/ Done(r)
    BY <1>11 DEF MoveCommit
  <2> HIDE DEF q, o
  <2>6. QED
    BY <1>0, <2>1, <2>3, <2>4, <2>5, GotoType, UpdateType, DoneType,
       TypePartsNext DEF o
<1>12. ASSUME NEW r \in Requests, ChargeWrite(r)
       PROVE  TypeOK'
  <2>1. Done(r) /\ RowTypes'
    BY <1>0, <1>12 DEF ChargeWrite, RowTypes, PaymentStatus, orderRow
  <2>2. QED
    BY <1>0, <2>1, DoneType, TypePartsNext
<1>13. ASSUME NEW r \in Requests, PaidCommit(r)
       PROVE  TypeOK'
  <2>1. req[r].o \in Orders /\ req[r].from \in OrderStatus
    BY <1>0, <1>6, <1>13 DEF PaidCommit, At, RowMatches, RowTypes
  <2>2. /\ status' \in [Orders -> OrderStatus]
        /\ refundFrom' \in [Orders -> OrderStatus \cup {NoStatus}]
    BY <1>0, <1>13, <2>1, SetStatusTypes DEF PaidCommit, OrderStatus
  <2>3. Done(r) /\ RowTypes'
    BY <1>0, <1>13, <2>2 DEF PaidCommit, RowTypes, PaymentStatus, channel
  <2>4. QED
    BY <1>0, <2>3, DoneType, TypePartsNext
<1>14. ASSUME NEW r \in Requests, RefundEnter(r)
       PROVE  TypeOK'
  <2> DEFINE q == [req[r] EXCEPT !.pc = "guard", !.seen = status[req[r].o],
                     !.stage = StageOf(req[r]), !.hadMaster = Owned(req[r].o)]
  <2>1. req[r].pc # "idle" /\ req[r].o \in Orders
    BY <1>6, <1>14 DEF RefundEnter
  <2>2. StageOf(req[r]) \in OrderStatus \cup {NoStatus} /\ Owned(req[r].o) \in BOOLEAN
    BY <1>0, <1>7, <2>1 DEF StageOf, Owned, Request, RowTypes
  <2>3. q \in Request /\ q.o = req[r].o
    <3> DEFINE now == status[req[r].o]
               stage == StageOf(req[r])
               owned == Owned(req[r].o)
    <3>1. req[r] \in Request
      BY <1>7
    <3>2. now \in OrderStatus
      BY <1>0, <2>1 DEF RowTypes
    <3>3. stage \in OrderStatus \cup {NoStatus} /\ owned \in BOOLEAN
      BY <2>2
    <3>4. q = [req[r] EXCEPT !.pc = "guard", !.seen = now, !.stage = stage,
                             !.hadMaster = owned]
      OBVIOUS
    <3> HIDE DEF now, stage, owned, q
    <3>5. QED
      BY <3>1, <3>2, <3>3, <3>4 DEF Request
  <2>4. req' = [req EXCEPT ![r] = q] /\ UNCHANGED <<orderRow, tables, channel>>
    BY <1>14 DEF RefundEnter
  <2> HIDE DEF q
  <2>5. QED
    BY <1>0, <2>1, <2>3, <2>4, UpdateType, RowTypesSame, TypePartsNext
<1>15. ASSUME NEW r \in Requests, RefundGuard(r)
       PROVE  TypeOK'
  <2>1. /\ req[r].pc # "idle"
        /\ Done(r) \/ Goto(r, "provider")
        /\ UNCHANGED <<orderRow, tables, channel>>
    BY <1>15 DEF RefundGuard
  <2>2. QED
    BY <1>0, <2>1, DoneType, GotoType, RowTypesSame, TypePartsNext
<1>16. ASSUME NEW r \in Requests, ProviderRefund(r)
       PROVE  TypeOK'
  <2> DEFINE o == req[r].o
             share == Split(req[r]).refundAmount
  <2>1. req[r].pc # "idle" /\ o \in Orders
    BY <1>6, <1>16 DEF ProviderRefund
  <2>2. share \in Nat
    BY <2>1, SplitTypes DEF Split
  <2>3. returned' = [returned EXCEPT ![o] = @ + share]
    BY <1>16 DEF ProviderRefund
  <2> HIDE DEF o, share
  <2>4. returned' \in [Orders -> Nat]
    BY <1>0, <2>1, <2>2, <2>3 DEF RowTypes
  <2>5. Goto(r, "load") /\ RowTypes'
    BY <1>0, <1>16, <2>4 DEF ProviderRefund, RowTypes, orderRow, tables
  <2>6. QED
    BY <1>0, <2>1, <2>5, GotoType, TypePartsNext
<1>17. ASSUME NEW r \in Requests, RefundCommit(r)
       PROVE  TypeOK'
  <2> DEFINE o == req[r].o
  <2>1. o \in Orders /\ req[r].from \in OrderStatus
    BY <1>0, <1>6, <1>17 DEF RefundCommit, At, RowMatches, RowTypes
  <2>2. Compensated(o, Split(req[r])) \in Settlement
    BY <2>1, SettlementTypes DEF Split
  <2>3. settlement' \in [Orders -> Settlement]
    BY <1>0, <1>17, <2>2 DEF RefundCommit, RowTypes
  <2>4. Done(r) /\ RowTypes'
    BY <1>0, <1>17, <2>1, <2>3
       DEF RefundCommit, RowTypes, OrderStatus, PaymentStatus, channel
  <2>5. QED
    BY <1>0, <2>4, DoneType, TypePartsNext
<1>18. ASSUME NEW r \in Requests, VerdictWrite(r)
       PROVE  TypeOK'
  <2>1. req[r].o \in Orders
    BY <1>6, <1>18 DEF VerdictWrite, At
  <2>2. settlement[req[r].o] \in Settlement
    BY <1>0, <2>1 DEF RowTypes
  <2>3. \A v \in {"credited", "rejected"} :
          [settlement[req[r].o] EXCEPT !.status = v] \in Settlement
    BY <2>2 DEF Settlement
  <2>4. settlement' \in [Orders -> Settlement]
    BY <1>0, <1>18, <2>3 DEF VerdictWrite, RowTypes
  <2>5. Done(r) /\ RowTypes'
    BY <1>0, <1>18, <2>4 DEF VerdictWrite, RowTypes, orderRow, channel
  <2>6. QED
    BY <1>0, <2>5, DoneType, TypePartsNext
<1>19. ASSUME NEW r \in Requests, SyncWrite(r)
       PROVE  TypeOK'
  <2>1. Released(req[r].o) \in Settlement
    BY <1>6, <1>19, SettlementTypes DEF SyncWrite, At
  <2>2. Done(r) /\ RowTypes'
    BY <1>0, <1>19, <2>1 DEF SyncWrite, RowTypes, orderRow, channel
  <2>3. QED
    BY <1>0, <2>2, DoneType, TypePartsNext
<1>20. ASSUME NEW r \in Requests, ReviewInsert(r)
       PROVE  TypeOK'
  <2>1. req[r].pc # "idle" /\ Goto(r, "load") /\ RowTypes'
    BY <1>0, <1>20 DEF ReviewInsert, At, RowTypes, orderRow, channel
  <2>2. QED
    BY <1>0, <2>1, GotoType, TypePartsNext
<1>21. QED
  BY <1>1, <1>2, <1>3, <1>4, <1>5, <1>8, <1>9, <1>10, <1>11, <1>12, <1>13, <1>14,
     <1>15, <1>16, <1>17, <1>18, <1>19, <1>20, NextCases

LEMMA TypeInit == Init => TypeOK
<1> SUFFICES ASSUME Init PROVE TypeOK
  OBVIOUS
<1>1. NoSettlement \in Settlement
  BY DEF NoSettlement, Settlement
<1>2. Idle \in Request /\ Idle.pc = "idle"
  BY DEF Idle, Request, NoStatus
<1>3. QED
  BY <1>1, <1>2 DEF Init, TypeOK, OrderStatus, PaymentStatus

\* The tables, the channel and the requests keep their types, whatever interleaves:
\* in particular no split ever makes an amount negative or not an integer.
THEOREM TypeCorrect == Spec => []TypeOK
BY TypeInit, TypeStep, PTL DEF Spec

-----------------------------------------------------------------------------
(* The money is safe: the inductive invariant of Platform, what follows from*)
(* it, and the escrow contract the services implement.                      *)
(*                                                                          *)
(* RowStep reduces a step of any request to what it does to the rows of one *)
(* order; everything else is proved from these few shapes.                  *)

\* The edges of the flow, read backwards.
LEMMA FlowFacts ==
  ASSUME NEW a, NEW b, canTransition(a, b)
  PROVE  /\ b \in {"pending_accept", "cancelled"} => a = "pending_payment"
         /\ b # "pending_payment" /\ a \notin {"cancelled", "refunded"}
         /\ b = "accepted" => a = "pending_accept"
         /\ b \in PostPayStates \ {"pending_accept", "accepted"} =>
              a \in PostPayStates \ {"pending_accept"}
         /\ b = "reviewed" => a = "pending_confirm"
         /\ b = "evaluated" => a = "reviewed"
         /\ b = "refunding" => a \in PostPayStates \cup CompletedStates
         /\ b = "refunded" => a = "refunding"
         /\ b \in OrderStatus
<1>1. \/ <<a, b>> \in PostPayStates \X {"refunding"}
      \/ <<a, b>> \in CompletedStates \X {"refunding"}
      \/ /\ a = "pending_payment" /\ b \in {"pending_accept", "cancelled"}
      \/ a = "pending_accept" /\ b = "accepted"
      \/ a = "accepted" /\ b = "departing"
      \/ a = "departing" /\ b = "arrived"
      \/ a = "arrived" /\ b = "servicing"
      \/ a = "servicing" /\ b = "pending_confirm"
      \/ a = "pending_confirm" /\ b = "reviewed"
      \/ a = "reviewed" /\ b = "evaluated"
      \/ a = "refunding" /\ b = "refunded"
  BY DEF canTransition, Flow
<1>2. QED
  BY <1>1 DEF PostPayStates, CompletedStates, OrderStatus

-----------------------------------------------------------------------------
(* What a step does to the rows of an order.                                *)

Quiet(o) ==
  /\ status'[o] = status[o]
  /\ masterId'[o] = masterId[o]
  /\ settlement'[o] = settlement[o]

Taken(o) ==
  /\ status[o] = "pending_accept" /\ status'[o] = "accepted"
  /\ ~Owned(o) /\ masterId'[o] \in Masters
  /\ settlement'[o] = settlement[o]

Moved(o) ==
  /\ canTransition(status[o], status'[o])
  /\ status'[o] \notin {"accepted", "reviewed", "refunded"}
  /\ masterId'[o] = masterId[o]
  /\ settlement'[o] = settlement[o]

Confirmed(o) ==
  /\ status[o] = "pending_confirm" /\ status'[o] = "reviewed"
  /\ Owned(o) /\ masterId'[o] = masterId[o]
  /\ settlement'[o] = Released(o)

Repaid(o) ==
  /\ canTransition(status[o], "refunding") \/ status[o] = "refunding"
  /\ status'[o] = "refunded"
  /\ masterId'[o] = masterId[o]
  /\ \E s \in RefundableStates :
       LET split == splitRefund(Amount[o], s, Snapshot[o])
       IN  /\ returned'[o] >= split.refundAmount
           /\ settlement'[o] \in {settlement[o], Compensated(o, split)}

Judged(o) ==
  /\ status'[o] = status[o]
  /\ masterId'[o] = masterId[o]
  /\ settlement[o].status = "pending"
  /\ \E v \in {"credited", "rejected"} :
       settlement'[o] = [settlement[o] EXCEPT !.status = v]

Changed(o) ==
  Taken(o) \/ Moved(o) \/ Confirmed(o) \/ Repaid(o) \/ Judged(o)

\* Money that was paid back stays paid back.
PaidBackGrows == \A o \in Orders : returned'[o] >= returned[o]

RowStep ==
  /\ PaidBackGrows
  /\ \/ \A o \in Orders : Quiet(o)
     \/ \E o \in Orders : Changed(o) /\ \A p \in Orders \ {o} : Quiet(p)

LEMMA RowTyping ==
  ASSUME TypeOK, NEW o \in Orders
  PROVE  /\ status[o] \in OrderStatus
         /\ masterId[o] \in Masters \cup {NoOne}
         /\ settlement[o] \in Settlement
         /\ returned[o] \in Nat
BY DEF TypeOK

LEMMA QuietRows ==
  ASSUME TypeOK, UNCHANGED <<status, masterId, settlement, returned>>
  PROVE  RowStep
<1>1. \A o \in Orders : returned[o] >= returned[o]
  BY RowTyping
<1>2. QED
  BY <1>1 DEF RowStep, PaidBackGrows, Quiet

\* One order o changes, the others and the money paid back do not.
LEMMA OneRow ==
  ASSUME TypeOK, NEW o \in Orders, NEW s, NEW m, NEW l,
         status' = [status EXCEPT ![o] = s],
         masterId' = [masterId EXCEPT ![o] = m],
         settlement' = [settlement EXCEPT ![o] = l],
         returned' = returned,
         status'[o] = s /\ masterId'[o] = m /\ settlement'[o] = l => Changed(o)
  PROVE  RowStep
<1>1. \A p \in Orders : returned[p] >= returned[p]
  BY RowTyping
<1>2. status'[o] = s /\ masterId'[o] = m /\ settlement'[o] = l
  BY DEF TypeOK
<1>3. \A p \in Orders \ {o} : Quiet(p)
  BY DEF TypeOK, Quiet
<1>4. QED
  BY <1>1, <1>2, <1>3 DEF RowStep, PaidBackGrows

\* A column that does not change is a column with its own value written to it.
LEMMA SameColumn ==
  ASSUME TypeOK, NEW o \in Orders
  PROVE  /\ status = [status EXCEPT ![o] = status[o]]
         /\ masterId = [masterId EXCEPT ![o] = masterId[o]]
         /\ settlement = [settlement EXCEPT ![o] = settlement[o]]
BY DEF TypeOK

-----------------------------------------------------------------------------
(* The actions that write rows, one by one.                                 *)

LEMMA RequestTyping ==
  ASSUME Inductive, NEW r \in Requests
  PROVE  /\ req[r] \in Request
         /\ req[r].pc # "idle" => req[r].o \in Orders
         /\ RequestOK(req[r], returned, settlement)
BY DEF Inductive, TypeOK

LEMMA ClaimRows ==
  ASSUME Inductive, NEW r \in Requests, NEW o \in Orders, NEW m \in Masters,
         Claim(r, o, m)
  PROVE  RowStep
<1>1. TypeOK
  BY DEF Inductive
<1>2. /\ status' = [status EXCEPT ![o] = "accepted"]
      /\ masterId' = [masterId EXCEPT ![o] = m]
      /\ settlement' = settlement /\ returned' = returned
      /\ status[o] = "pending_accept" /\ ~Owned(o)
  BY DEF Claim, SetStatus, Claimable, Owned, tables, channel
<1>3. settlement' = [settlement EXCEPT ![o] = settlement[o]]
  BY <1>1, <1>2, SameColumn
<1>4. status'[o] = "accepted" /\ masterId'[o] = m /\ settlement'[o] = settlement[o]
        => Changed(o)
  BY <1>2 DEF Changed, Taken
<1>5. QED
  BY <1>1, <1>2, <1>3, <1>4, OneRow

LEMMA ConfirmRows ==
  ASSUME Inductive, NEW r \in Requests, ConfirmCommit(r)
  PROVE  RowStep
<1> DEFINE o == req[r].o
<1>1. TypeOK
  BY DEF Inductive
<1>2. req[r].pc = "store" /\ req[r].op = "confirm" /\ status[o] = req[r].from
  BY DEF ConfirmCommit, At, RowMatches
<1>3. o \in Orders
  BY <1>2, RequestTyping
<1>4. canTransition(status[o], "reviewed")
  BY <1>2, RequestTyping DEF RequestOK, Target
<1>5. status[o] = "pending_confirm"
  BY <1>4, FlowFacts
<1>6. /\ status' = [status EXCEPT ![o] = "reviewed"]
      /\ settlement' = [settlement EXCEPT ![o] = Released(o)]
      /\ masterId' = masterId /\ returned' = returned /\ Owned(o)
  BY DEF ConfirmCommit, SetStatus, channel
<1> HIDE DEF o
<1>7. masterId' = [masterId EXCEPT ![o] = masterId[o]]
  BY <1>1, <1>3, <1>6, SameColumn
<1>8. status'[o] = "reviewed" /\ masterId'[o] = masterId[o]
        /\ settlement'[o] = Released(o) => Changed(o)
  BY <1>5, <1>6 DEF Changed, Confirmed
<1>9. QED
  BY <1>1, <1>3, <1>6, <1>7, <1>8, OneRow

\* The status moves along the flow, nothing else changes.
LEMMA MovedRows ==
  ASSUME TypeOK, NEW o \in Orders, NEW to,
         canTransition(status[o], to), to \notin {"accepted", "reviewed", "refunded"},
         status' = [status EXCEPT ![o] = to],
         masterId' = masterId, settlement' = settlement, returned' = returned
  PROVE  RowStep
<1>1. status'[o] = to /\ \A p \in Orders \ {o} : status'[p] = status[p]
  BY DEF TypeOK
<1>2. Changed(o) /\ \A p \in Orders \ {o} : Quiet(p)
  BY <1>1 DEF Changed, Moved, Quiet
<1>3. PaidBackGrows
  BY RowTyping DEF PaidBackGrows
<1>4. QED
  BY <1>2, <1>3 DEF RowStep

LEMMA MoveRows ==
  ASSUME Inductive, NEW r \in Requests, MoveCommit(r)
  PROVE  RowStep
<1> DEFINE o == req[r].o
           to == Target(req[r])
<1>1. TypeOK
  BY DEF Inductive
<1>2. /\ req[r].pc = "store" /\ status[o] = req[r].from
      /\ req[r].op \in {"depart", "arrive", "startService", "complete",
                        "cancel", "review"}
      /\ status' = [status EXCEPT ![o] = to]
      /\ UNCHANGED <<masterId, settlement, returned>>
  BY DEF MoveCommit, At, RowMatches, SetStatus, tables, channel
<1>3. o \in Orders /\ canTransition(status[o], to)
  BY <1>2, RequestTyping DEF RequestOK
<1>4. to \notin {"accepted", "reviewed", "refunded"}
  BY <1>2 DEF Target
<1> HIDE DEF o, to
<1>5. QED
  BY <1>1, <1>2, <1>3, <1>4, MovedRows

LEMMA PaidRows ==
  ASSUME Inductive, NEW r \in Requests, PaidCommit(r)
  PROVE  RowStep
<1> DEFINE o == req[r].o
<1>1. TypeOK
  BY DEF Inductive
<1>2. /\ req[r].pc = "store" /\ req[r].op = "notify" /\ status[o] = req[r].from
      /\ status' = [status EXCEPT ![o] = "pending_accept"]
      /\ UNCHANGED <<masterId, settlement, returned>>
  BY DEF PaidCommit, At, RowMatches, SetStatus, channel
<1>3. o \in Orders /\ canTransition(status[o], "pending_accept")
  BY <1>2, RequestTyping DEF RequestOK, Target
<1> HIDE DEF o
<1>4. QED
  BY <1>1, <1>2, <1>3, MovedRows

LEMMA VerdictRows ==
  ASSUME Inductive, NEW r \in Requests, VerdictWrite(r)
  PROVE  RowStep
<1> DEFINE o == req[r].o
           verdict == IF req[r].op = "credit" THEN "credited" ELSE "rejected"
           row == [settlement[o] EXCEPT !.status = verdict]
<1>1. TypeOK
  BY DEF Inductive
<1>2. o \in Orders /\ settlement[o].status = "pending"
  BY RequestTyping DEF VerdictWrite, At, VerdictRowMatches, IsPending
<1>3. settlement' = [settlement EXCEPT ![o].status = verdict]
  BY DEF VerdictWrite
<1>4. settlement' = [settlement EXCEPT ![o] = row]
  BY <1>3
<1>5. UNCHANGED <<status, masterId, returned>>
  BY DEF VerdictWrite, orderRow, channel
<1>6. verdict \in {"credited", "rejected"}
  OBVIOUS
<1>7. settlement'[o] = row /\ status'[o] = status[o] /\ masterId'[o] = masterId[o]
        => Changed(o)
  BY <1>2, <1>6 DEF Changed, Judged
<1> HIDE DEF o, verdict, row
<1>8. /\ status' = [status EXCEPT ![o] = status[o]]
      /\ masterId' = [masterId EXCEPT ![o] = masterId[o]]
  BY <1>1, <1>2, <1>5, SameColumn
<1>9. QED
  BY <1>1, <1>2, <1>4, <1>5, <1>7, <1>8, OneRow

LEMMA RefundRows ==
  ASSUME Inductive, NEW r \in Requests, RefundCommit(r)
  PROVE  RowStep
<1> DEFINE o == req[r].o
           stage == req[r].stage
           split == splitRefund(Amount[o], stage, Snapshot[o])
<1>1. TypeOK
  BY DEF Inductive
<1>2. req[r].pc = "store" /\ req[r].op = "refund" /\ status[o] = req[r].from
  BY DEF RefundCommit, At, RowMatches
<1>3. o \in Orders /\ stage \in RefundableStates /\ returned[o] >= split.refundAmount
  BY <1>2, RequestTyping DEF RequestOK
<1>4. canTransition(status[o], "refunding") \/ status[o] = "refunding"
  <2>1. canTransition(status[o], "refunded") \/ canTransition(status[o], "refunding")
    BY <1>2, RequestTyping DEF RequestOK, Target
  <2>2. QED
    BY <2>1, FlowFacts
<1>5. /\ status' = [status EXCEPT ![o] = "refunded"]
      /\ masterId' = masterId /\ returned' = returned
  BY DEF RefundCommit, channel
<1>6. \/ settlement' = settlement
      \/ settlement' = [settlement EXCEPT ![o] = Compensated(o, split)]
  BY DEF RefundCommit, Split
<1> HIDE DEF o, stage
<1>7. status'[o] = "refunded" /\ settlement'[o] \in {settlement[o], Compensated(o, split)}
  BY <1>1, <1>3, <1>5, <1>6 DEF TypeOK
<1>8. \A p \in Orders \ {o} : Quiet(p)
  <2> HIDE DEF split
  <2>1. QED
    BY <1>1, <1>3, <1>5, <1>6 DEF TypeOK, Quiet
<1>9. Changed(o)
  BY <1>3, <1>4, <1>5, <1>7 DEF Changed, Repaid
<1>10. PaidBackGrows
  BY <1>1, <1>5, RowTyping DEF PaidBackGrows
<1>11. QED
  BY <1>3, <1>8, <1>9, <1>10 DEF RowStep

LEMMA ProviderRows ==
  ASSUME Inductive, NEW r \in Requests, ProviderRefund(r)
  PROVE  RowStep
<1> DEFINE o == req[r].o
           share == Split(req[r]).refundAmount
<1>1. TypeOK
  BY DEF Inductive
<1>2. o \in Orders /\ share \in Nat
  BY RequestTyping, SplitTypes DEF ProviderRefund, Split
<1>3. returned' = [returned EXCEPT ![o] = returned[o] + share]
  BY DEF ProviderRefund
<1>4. \A p \in Orders : Quiet(p)
  BY DEF ProviderRefund, Quiet, orderRow, tables
<1> HIDE DEF o, share
<1>5. \A p \in Orders : returned'[p] = IF p = o THEN returned[p] + share
                                     ELSE returned[p]
  BY <1>1, <1>2, <1>3 DEF TypeOK
<1>6. PaidBackGrows
  BY <1>1, <1>2, <1>5, RowTyping DEF PaidBackGrows
<1>7. QED
  BY <1>4, <1>6 DEF RowStep

\* syncForPaidOrders finds the settlement there already.
LEMMA SyncRows ==
  ASSUME Inductive, NEW r \in Requests, SyncWrite(r)
  PROVE  RowStep
<1>1. TypeOK
  BY DEF Inductive
<1>2. req[r].o \in Orders /\ settlement[req[r].o] # NoSettlement
  BY RequestTyping DEF SyncWrite, At, RequestOK
<1>3. settlement' = settlement
  BY <1>1, <1>2, SameColumn DEF SyncWrite, Released
<1>4. QED
  BY <1>1, <1>3, QuietRows DEF SyncWrite, orderRow, channel

LEMMA StepRows ==
  ASSUME Inductive, Next
  PROVE  RowStep
<1>1. TypeOK
  BY DEF Inductive
<1>2. ASSUME NEW o \in Orders, Capture(o)
      PROVE  RowStep
  BY <1>1, <1>2, QuietRows DEF Capture, orderRow, tables
<1>3. ASSUME NEW r \in Requests,
             \/ Crash(r) \/ TransitionRefused(r) \/ TransitionConflict(r)
             \/ RefundRefused(r) \/ VerdictConflict(r) \/ ReviewDuplicate(r)
             \/ ChargeFails(r) \/ ProviderFails(r) \/ HandleNotifyEnds(r)
      PROVE  RowStep
  BY <1>1, <1>3, EndShape, QuietRows DEF orderRow, tables, channel
<1>4. ASSUME NEW r \in Requests, NEW o \in Orders,
             \/ \E op \in Handlers : MoveStart(r, o, op)
             \/ ArriveCodeStart(r, o) \/ ArriveStart(r, o)
             \/ ConfirmStart(r, o) \/ CancelStart(r, o)
             \/ ChargeStart(r, o) \/ NotifyStart(r, o)
             \/ HandleNotifyStart(r, o) \/ RefundStart(r, o)
             \/ \E op \in Handlers : VerdictStart(r, o, op)
             \/ SyncStart(r, o) \/ ReviewStart(r, o)
      PROVE  RowStep
  BY <1>1, <1>4, StartShape, QuietRows DEF orderRow, tables, channel
<1>5. ASSUME NEW r \in Requests,
             \/ TransitionLoad(r) \/ RefundEnter(r) \/ RefundGuard(r)
             \/ ArriveCodeWrite(r) \/ ArriveCodeClear(r) \/ ChargeWrite(r)
             \/ ReviewInsert(r)
      PROVE  RowStep
  BY <1>1, <1>5, QuietRows
     DEF TransitionLoad, RefundEnter, RefundGuard, ArriveCodeWrite, ArriveCodeClear,
         ChargeWrite, ReviewInsert, orderRow, tables, channel
<1>6. QED
  BY <1>2, <1>3, <1>4, <1>5, NextCases, ClaimRows, ConfirmRows, MoveRows, PaidRows,
     VerdictRows, RefundRows, ProviderRows, SyncRows

-----------------------------------------------------------------------------
(* The invariant on requests.                                               *)

\* A settlement that is there stays there.
LEMMA LedgerKept ==
  ASSUME RowStep, NEW o \in Orders, settlement[o] # NoSettlement
  PROVE  settlement'[o] # NoSettlement
<1>1. CASE Quiet(o)
  BY <1>1 DEF Quiet
<1>2. CASE Changed(o)
  <2>1. CASE Judged(o)
    <3>1. \A v \in {"credited", "rejected"} :
            [settlement[o] EXCEPT !.status = v] # NoSettlement
      BY <2>1 DEF NoSettlement, Judged
    <3>2. QED
      BY <2>1, <3>1 DEF Judged
  <2>2. CASE Taken(o) \/ Moved(o) \/ Confirmed(o) \/ Repaid(o)
    BY <2>2 DEF Taken, Moved, Confirmed, Repaid, Released, Compensated
  <2>3. QED
    BY <1>2, <2>1, <2>2 DEF Changed
<1>3. QED
  BY <1>1, <1>2 DEF RowStep

\* A request that does not move itself keeps what it relies on.
LEMMA RequestCarried ==
  ASSUME Inductive, TypeOK', RowStep, NEW r \in Requests
  PROVE  RequestOK(req[r], returned', settlement')
<1> DEFINE q == req[r]
           share == splitRefund(Amount[q.o], q.stage, Snapshot[q.o]).refundAmount
<1>1. RequestOK(q, returned, settlement) /\ (q.pc # "idle" => q.o \in Orders)
  BY RequestTyping
<1>2. ASSUME q.o \in Orders
      PROVE  /\ returned'[q.o] >= returned[q.o]
             /\ returned[q.o] \in Nat /\ returned'[q.o] \in Nat
             /\ share \in Nat
             /\ settlement[q.o] # NoSettlement => settlement'[q.o] # NoSettlement
  BY <1>2, LedgerKept, SplitTypes DEF RowStep, PaidBackGrows, TypeOK, Inductive
<1>3. q.op = "refund" /\ q.pc \in {"load", "store"} => returned'[q.o] >= share
  <2> SUFFICES ASSUME q.op = "refund", q.pc \in {"load", "store"}
               PROVE  returned'[q.o] >= share
    OBVIOUS
  <2>1. returned[q.o] >= share /\ q.o \in Orders
    BY <1>1 DEF RequestOK
  <2> HIDE DEF q, share
  <2>2. QED
    BY <1>2, <2>1
<1>4. q.op = "sync" /\ q.pc = "write" => settlement'[q.o] # NoSettlement
  BY <1>1, <1>2 DEF RequestOK
<1> HIDE DEF q
<1>5. RequestOK(q, returned', settlement')
  BY <1>1, <1>3, <1>4 DEF RequestOK
<1>6. QED
  BY <1>5 DEF q

LEMMA RequestsStep ==
  ASSUME Inductive, TypeOK', RowStep, NEW r \in Requests, NEW q,
         req' = [req EXCEPT ![r] = q], RequestOK(q, returned', settlement')
  PROVE  \A p \in Requests : RequestOK(req'[p], returned', settlement')
<1>1. \A p \in Requests : req'[p] = IF p = r THEN q ELSE req[p]
  BY DEF Inductive, TypeOK
<1>2. QED
  BY <1>1, RequestCarried

LEMMA RequestsSame ==
  ASSUME Inductive, TypeOK', RowStep, req' = req
  PROVE  \A p \in Requests : RequestOK(req'[p], returned', settlement')
BY RequestCarried

LEMMA IdleOK == \A back, ledger : RequestOK(Idle, back, ledger)
BY DEF RequestOK, Idle

LEMMA RequestsDone ==
  ASSUME Inductive, TypeOK', RowStep, NEW r \in Requests, Done(r)
  PROVE  \A p \in Requests : RequestOK(req'[p], returned', settlement')
BY IdleOK, RequestsStep DEF Done

LEMMA BeginRequests ==
  ASSUME Inductive, TypeOK', RowStep, NEW r \in Requests, NEW o \in Orders,
         NEW op \in Handlers, NEW pc \in {"load", "write", "enter", "lookup"},
         NEW stage \in PostPayStates \cup {NoStatus},
         Begin(r, op, o, pc, stage), pc = "enter" <=> op = "refund",
         op = "sync" => settlement'[o] # NoSettlement
  PROVE  \A p \in Requests : RequestOK(req'[p], returned', settlement')
<1> DEFINE q == [Idle EXCEPT !.op = op, !.o = o, !.pc = pc, !.stage = stage]
<1>1. req' = [req EXCEPT ![r] = q]
  BY DEF Begin, TakeUp
<1>2. q.op = op /\ q.o = o /\ q.pc = pc /\ q.stage = stage
  BY DEF Idle
<1> HIDE DEF q
<1>3. RequestOK(q, returned', settlement')
  BY <1>2 DEF RequestOK, RefundableStates
<1>4. QED
  BY <1>1, <1>3, RequestsStep

LEMMA StepRequests ==
  ASSUME Inductive, TypeOK', RowStep, Next
  PROVE  \A p \in Requests : RequestOK(req'[p], returned', settlement')
<1> DEFINE Kept == \A p \in Requests : RequestOK(req'[p], returned', settlement')
<1>1. ASSUME NEW r \in Requests,
             \/ Crash(r) \/ TransitionRefused(r) \/ TransitionConflict(r)
             \/ RefundRefused(r) \/ VerdictConflict(r) \/ ReviewDuplicate(r)
             \/ ChargeFails(r) \/ ProviderFails(r) \/ HandleNotifyEnds(r)
             \/ ArriveCodeWrite(r) \/ ArriveCodeClear(r) \/ ConfirmCommit(r)
             \/ ChargeWrite(r) \/ PaidCommit(r) \/ RefundCommit(r)
             \/ VerdictWrite(r) \/ SyncWrite(r)
      PROVE  Kept
  <2>1. Done(r)
    BY <1>1, EndShape
       DEF ArriveCodeWrite, ArriveCodeClear, ConfirmCommit, ChargeWrite, PaidCommit,
           RefundCommit, VerdictWrite, SyncWrite
  <2>2. QED
    BY <2>1, RequestsDone
<1>2. ASSUME NEW r \in Requests, NEW o \in Orders,
             \/ \E op \in Handlers : MoveStart(r, o, op)
             \/ ArriveCodeStart(r, o) \/ ArriveStart(r, o)
             \/ ConfirmStart(r, o) \/ CancelStart(r, o)
             \/ ChargeStart(r, o) \/ NotifyStart(r, o)
             \/ HandleNotifyStart(r, o) \/ RefundStart(r, o)
             \/ \E op \in Handlers : VerdictStart(r, o, op)
             \/ SyncStart(r, o) \/ ReviewStart(r, o)
      PROVE  Kept
  <2>1. PICK op \in Handlers, pc \in {"load", "write", "enter", "lookup"},
             stage \in PostPayStates \cup {NoStatus} :
          /\ Begin(r, op, o, pc, stage)
          /\ pc = "enter" <=> op = "refund"
          /\ op = "sync" => status[o] \in CompletedStates
    BY <1>2, StartShape
  <2>2. op = "sync" => settlement'[o] # NoSettlement
    BY <2>1, LedgerKept DEF Inductive, OrderOK
  <2>3. QED
    BY <2>1, <2>2, BeginRequests
<1>3. ASSUME NEW r \in Requests, TransitionLoad(r)
      PROVE  Kept
  <2> DEFINE q == [req[r] EXCEPT !.pc = "store", !.from = status[req[r].o]]
  <2>1. req' = [req EXCEPT ![r] = q]
    BY <1>3 DEF TransitionLoad
  <2>2. /\ req[r].pc = "load" /\ canTransition(status[req[r].o], Target(req[r]))
        /\ req[r] \in Request /\ RequestOK(req[r], returned', settlement')
    BY <1>3, RequestTyping, RequestCarried DEF TransitionLoad
  <2>3. /\ q.pc = "store" /\ q.from = status[req[r].o] /\ q.op = req[r].op
        /\ q.o = req[r].o /\ q.stage = req[r].stage /\ q.seen = req[r].seen
    BY <2>2 DEF Request
  <2> HIDE DEF q
  <2>4. Target(q) = Target(req[r])
    BY <2>3 DEF Target
  <2>5. RequestOK(q, returned', settlement')
    BY <2>2, <2>3, <2>4 DEF RequestOK
  <2>6. QED
    BY <2>1, <2>5, RequestsStep
<1>4. ASSUME NEW r \in Requests, MoveCommit(r)
      PROVE  Kept
  <2>1. /\ req[r] \in Request /\ RequestOK(req[r], returned', settlement')
        /\ req[r].op \in {"depart", "arrive", "startService", "complete",
                          "cancel", "review"}
    BY <1>4, RequestTyping, RequestCarried DEF MoveCommit, At
  <2>2. CASE req[r].op = "arrive"
    <3> DEFINE q == [req[r] EXCEPT !.pc = "write"]
    <3>1. req' = [req EXCEPT ![r] = q]
      BY <1>4, <2>2 DEF MoveCommit, Goto
    <3>2. q.pc = "write" /\ q.op = "arrive" /\ q.stage = req[r].stage
      BY <2>1, <2>2 DEF Request
    <3> HIDE DEF q
    <3>3. RequestOK(q, returned', settlement')
      BY <2>1, <3>2 DEF RequestOK
    <3>4. QED
      BY <3>1, <3>3, RequestsStep
  <2>3. CASE req[r].op = "cancel" /\ req[r].stage # NoStatus
    <3> DEFINE q == [req[r] EXCEPT !.op = "refund", !.pc = "enter"]
    <3>1. req' = [req EXCEPT ![r] = q]
      BY <1>4, <2>3 DEF MoveCommit
    <3>2. q.pc = "enter" /\ q.op = "refund" /\ q.stage = req[r].stage
      BY <2>1 DEF Request
    <3> HIDE DEF q
    <3>3. RequestOK(q, returned', settlement')
      BY <2>1, <3>2 DEF RequestOK
    <3>4. QED
      BY <3>1, <3>3, RequestsStep
  <2>4. CASE /\ req[r].op # "arrive"
             /\ req[r].op = "cancel" => req[r].stage = NoStatus
    BY <1>4, <2>4, RequestsDone DEF MoveCommit
  <2>5. QED
    BY <2>2, <2>3, <2>4
<1>5. ASSUME NEW r \in Requests, RefundEnter(r)
      PROVE  Kept
  <2> DEFINE q == [req[r] EXCEPT !.pc = "guard", !.seen = status[req[r].o],
                     !.stage = StageOf(req[r]), !.hadMaster = Owned(req[r].o)]
  <2>1. /\ req[r] \in Request /\ RequestOK(req[r], returned', settlement')
        /\ req[r].pc = "enter" /\ status[req[r].o] \in RefundableStates
        /\ req' = [req EXCEPT ![r] = q]
    BY <1>5, RequestTyping, RequestCarried DEF RefundEnter
  <2>2. q.pc = "guard" /\ q.op = "refund" /\ q.stage = StageOf(req[r])
    BY <2>1 DEF Request, RequestOK
  <2>3. StageOf(req[r]) \in RefundableStates
    BY <2>1 DEF StageOf, RequestOK
  <2> HIDE DEF q
  <2>4. RequestOK(q, returned', settlement')
    BY <2>2, <2>3 DEF RequestOK
  <2>5. QED
    BY <2>1, <2>4, RequestsStep
<1>6. ASSUME NEW r \in Requests, RefundGuard(r)
      PROVE  Kept
  <2> DEFINE q == [req[r] EXCEPT !.pc = "provider"]
  <2>1. /\ req[r] \in Request /\ RequestOK(req[r], returned', settlement')
        /\ req[r].pc = "guard"
        /\ Done(r) \/ req' = [req EXCEPT ![r] = q]
    BY <1>6, RequestTyping, RequestCarried DEF RefundGuard, Goto
  <2>2. q.pc = "provider" /\ q.op = "refund" /\ q.stage = req[r].stage
    BY <2>1 DEF Request, RequestOK
  <2> HIDE DEF q
  <2>3. RequestOK(q, returned', settlement')
    BY <2>1, <2>2 DEF RequestOK
  <2>4. QED
    BY <2>1, <2>3, RequestsStep, RequestsDone
<1>7. ASSUME NEW r \in Requests, ProviderRefund(r)
      PROVE  Kept
  <2> DEFINE q == [req[r] EXCEPT !.pc = "load"]
             o == req[r].o
             share == splitRefund(Amount[o], req[r].stage, Snapshot[o]).refundAmount
  <2>1. /\ req[r] \in Request /\ RequestOK(req[r], returned', settlement')
        /\ req[r].pc = "provider" /\ o \in Orders
        /\ req' = [req EXCEPT ![r] = q]
        /\ returned' = [returned EXCEPT ![o] = returned[o] + share]
    BY <1>7, RequestTyping, RequestCarried DEF ProviderRefund, Goto, Split
  <2>2. /\ q.pc = "load" /\ q.op = "refund" /\ q.stage = req[r].stage
        /\ q.o = o
    BY <2>1 DEF Request, RequestOK
  <2>3. returned'[o] >= share
    <3>1. share \in Nat /\ returned[o] \in Nat
      BY <2>1, SplitTypes, RowTyping DEF Inductive
    <3>2. returned'[o] = returned[o] + share
      BY <2>1 DEF Inductive, TypeOK
    <3> HIDE DEF share, o
    <3>3. QED
      BY <3>1, <3>2
  <2> HIDE DEF q
  <2>4. RequestOK(q, returned', settlement')
    BY <2>1, <2>2, <2>3 DEF RequestOK
  <2>5. QED
    BY <2>1, <2>4, RequestsStep
<1>8. ASSUME NEW r \in Requests, ReviewInsert(r)
      PROVE  Kept
  <2> DEFINE q == [req[r] EXCEPT !.pc = "load"]
  <2>1. /\ req[r] \in Request /\ RequestOK(req[r], returned', settlement')
        /\ req[r].op = "review"
        /\ req' = [req EXCEPT ![r] = q]
    BY <1>8, RequestTyping, RequestCarried DEF ReviewInsert, Goto, At
  <2>2. q.pc = "load" /\ q.op = "review" /\ q.stage = req[r].stage
    BY <2>1 DEF Request
  <2> HIDE DEF q
  <2>3. RequestOK(q, returned', settlement')
    BY <2>1, <2>2 DEF RequestOK
  <2>4. QED
    BY <2>1, <2>3, RequestsStep
<1>9. ASSUME req' = req
      PROVE  Kept
  BY <1>9, RequestsSame
<1>10. QED
  BY <1>1, <1>2, <1>3, <1>4, <1>5, <1>6, <1>7, <1>8, <1>9, NextCases
     DEF Capture, Claim

-----------------------------------------------------------------------------
(* The invariant on rows.                                                   *)

LEMMA SettlementKinds ==
  ASSUME TypeOK, NEW o \in Orders, settlement[o] = NoSettlement
  PROVE  /\ Released(o) # NoSettlement
         /\ Released(o).masterId = masterId[o] /\ Released(o).type = "normal"
         /\ \A split :
              LET row == Compensated(o, split)
              IN  \/ row = NoSettlement
                  \/ /\ Owned(o) /\ row.masterId = masterId[o]
                     /\ row.type = "compensation"
BY DEF Released, Compensated, NoSettlement

LEMMA OrderStep ==
  ASSUME Inductive, TypeOK', RowStep, NEW o \in Orders
  PROVE  OrderOK(o)'
<1>1. /\ TypeOK /\ OrderOK(o) /\ status[o] \in OrderStatus
      /\ status'[o] \in OrderStatus /\ NoOne \notin Masters
  BY OrdersAssumption DEF Inductive, TypeOK
<1>2. ASSUME NEW s, returned[o] >= splitRefund(Amount[o], s, Snapshot[o]).refundAmount
      PROVE  returned'[o] >= splitRefund(Amount[o], s, Snapshot[o]).refundAmount
  <2>1. /\ returned'[o] >= returned[o] /\ returned[o] \in Nat
        /\ returned'[o] \in Nat
    BY DEF RowStep, PaidBackGrows, Inductive, TypeOK
  <2>2. splitRefund(Amount[o], s, Snapshot[o]).refundAmount \in Nat
    BY SplitTypes
  <2>3. QED
    BY <1>2, <2>1, <2>2
<1>3. CASE Quiet(o)
  BY <1>1, <1>2, <1>3 DEF OrderOK, Quiet, Owned
<1>4. CASE Taken(o)
  BY <1>1, <1>4 DEF OrderOK, Taken, Owned, PostPayStates, CompletedStates
<1>5. CASE Moved(o)
  <2> DEFINE a == status[o]
             b == status'[o]
  <2>1. /\ b \in {"pending_accept", "cancelled"} => a = "pending_payment"
        /\ b # "pending_payment" /\ a \notin {"cancelled", "refunded"}
        /\ b \in PostPayStates \ {"pending_accept", "accepted"} =>
             a \in PostPayStates \ {"pending_accept"}
        /\ b = "evaluated" => a = "reviewed"
        /\ b = "refunding" => a \in PostPayStates \cup CompletedStates
        /\ b \notin {"accepted", "reviewed", "refunded"}
    BY <1>5, FlowFacts DEF Moved
  <2>2. masterId'[o] = masterId[o] /\ settlement'[o] = settlement[o]
    BY <1>5 DEF Moved
  <2>3. (b \in {"pending_payment", "pending_accept", "cancelled"}) => ~Owned(o)'
    BY <1>1, <2>1, <2>2 DEF OrderOK, Owned
  <2>4. b \in (PostPayStates \ {"pending_accept"}) \cup CompletedStates => Owned(o)'
    BY <1>1, <2>1, <2>2 DEF OrderOK, Owned, CompletedStates, PostPayStates
  <2>5. b \in CompletedStates => settlement'[o] # NoSettlement
    BY <1>1, <2>1, <2>2 DEF OrderOK, CompletedStates
  <2>6. settlement'[o] # NoSettlement =>
          /\ Owned(o)' /\ settlement'[o].masterId = masterId'[o]
          /\ b \in CompletedStates \cup {"refunding", "refunded"}
    BY <1>1, <2>1, <2>2
       DEF OrderOK, Owned, CompletedStates, PostPayStates, OrderStatus
  <2>7. QED
    BY <2>1, <2>3, <2>4, <2>5, <2>6 DEF OrderOK
<1>6. CASE Confirmed(o)
  <2>1. settlement[o] = NoSettlement
    BY <1>1, <1>6 DEF Confirmed, OrderOK, CompletedStates
  <2>2. QED
    BY <1>1, <1>6, <2>1, SettlementKinds
       DEF OrderOK, Confirmed, Owned, PostPayStates, CompletedStates
<1>7. CASE Repaid(o)
  <2>1. status'[o] = "refunded" /\ masterId'[o] = masterId[o]
    BY <1>7 DEF Repaid
  <2>2. \E s \in RefundableStates :
          /\ returned'[o] >= splitRefund(Amount[o], s, Snapshot[o]).refundAmount
          /\ settlement'[o] \in
               {settlement[o], Compensated(o, splitRefund(Amount[o], s, Snapshot[o]))}
    BY <1>7 DEF Repaid
  <2>3. settlement'[o] # NoSettlement =>
          Owned(o) /\ settlement'[o].masterId = masterId[o]
    <3>1. CASE settlement[o] = NoSettlement
      BY <1>1, <2>2, <3>1, SettlementKinds
    <3>2. CASE settlement[o] # NoSettlement
      BY <1>1, <2>2, <3>2 DEF OrderOK, Compensated
    <3>3. QED
      BY <3>1, <3>2
  <2>4. QED
    BY <2>1, <2>2, <2>3 DEF OrderOK, Owned, PostPayStates, CompletedStates
<1>8. CASE Judged(o)
  <2>1. settlement[o] # NoSettlement
    BY <1>8 DEF Judged, NoSettlement
  <2>2. settlement[o] \in Settlement
    BY <1>1, RowTyping
  <2>3. settlement'[o].masterId = settlement[o].masterId
    BY <1>8, <2>2 DEF Judged, Settlement
  <2>4. settlement'[o] # NoSettlement
    BY <2>1, LedgerKept
  <2>5. status'[o] = status[o] /\ masterId'[o] = masterId[o]
    BY <1>8 DEF Judged
  <2>6. QED
    BY <1>1, <1>2, <2>1, <2>3, <2>4, <2>5 DEF OrderOK, Owned
<1>9. QED
  BY <1>3, <1>4, <1>5, <1>6, <1>7, <1>8 DEF RowStep, Changed

LEMMA InductiveInit == Init => Inductive
<1> SUFFICES ASSUME Init PROVE Inductive
  OBVIOUS
<1>1. \A o \in Orders : OrderOK(o)
  BY DEF Init, OrderOK, Owned, PostPayStates, CompletedStates
<1>2. \A r \in Requests : RequestOK(req[r], returned, settlement)
  BY IdleOK DEF Init
<1>3. QED
  BY <1>1, <1>2, TypeInit DEF Inductive

LEMMA InductiveStep == Inductive /\ [Next]_vars => Inductive'
<1> SUFFICES ASSUME Inductive, [Next]_vars PROVE Inductive'
  OBVIOUS
<1>1. TypeOK /\ TypeOK'
  BY TypeStep DEF Inductive
<1>2. RowStep
  <2>1. CASE UNCHANGED vars
    BY <1>1, <2>1, QuietRows DEF vars, orderRow, tables, channel
  <2>2. QED
    BY <2>1, StepRows
<1>3. \A o \in Orders : OrderOK(o)'
  BY <1>1, <1>2, OrderStep
<1>4. \A r \in Requests : RequestOK(req'[r], returned', settlement')
  <2>1. CASE UNCHANGED vars
    BY <1>1, <1>2, <2>1, RequestsSame DEF vars
  <2>2. QED
    BY <1>1, <1>2, <2>1, StepRequests
<1>5. QED
  BY <1>1, <1>3, <1>4 DEF Inductive

\* Rows and requests agree, for any number of orders, masters and requests, any
\* price and snapshot, every interleaving and with crashes anywhere.
THEOREM InductiveHolds == Spec => []Inductive
BY InductiveInit, InductiveStep, PTL DEF Spec

\* reconcile() finds neither orphan orders nor inconsistent settlements, ever:
\* what confirm and refund write together is never seen apart.
THEOREM LedgerIsConsistent == Spec => []LedgerConsistent
<1>1. Inductive => LedgerConsistent
  BY DEF Inductive, OrderOK, LedgerConsistent, OrphanOrder, InconsistentSettlement,
         CompletedStates
<1>2. QED
  BY <1>1, InductiveHolds, PTL

\* An order marked refunded was paid back at the channel first, whatever requests
\* overlapped or died in between.
THEOREM RefundedWasPaidBack == Spec => []RefundedWasReturned
<1>1. Inductive => RefundedWasReturned
  BY DEF Inductive, OrderOK, RefundedWasReturned
<1>2. QED
  BY <1>1, InductiveHolds, PTL

-----------------------------------------------------------------------------
(* Action properties, read off the shapes of a step.                        *)

LEMMA BoxRows == Inductive /\ [Next]_vars => RowStep
<1> SUFFICES ASSUME Inductive, [Next]_vars PROVE RowStep
  OBVIOUS
<1>1. CASE UNCHANGED vars
  BY <1>1, QuietRows DEF Inductive, vars, orderRow, tables, channel
<1>2. QED
  BY <1>1, StepRows

\* No status ever changes against the flow, although handlers act on a status they
\* read some awaits ago.
THEOREM StatusKeepsToFlow == Spec => StatusFollowsFlow
<1> DEFINE Follows(o) ==
      status'[o] # status[o] =>
        \/ canTransition(status[o], status'[o])
        \/ /\ status'[o] = "refunded"
           /\ canTransition(status[o], "refunding")
<1>1. Inductive /\ RowStep => \A o \in Orders : Follows(o)
  <2> SUFFICES ASSUME Inductive, RowStep, NEW o \in Orders PROVE Follows(o)
    OBVIOUS
  <2>1. CASE Quiet(o) \/ Judged(o) \/ Moved(o)
    BY <2>1 DEF Quiet, Judged, Moved
  <2>2. CASE Taken(o) \/ Confirmed(o)
    BY <2>2 DEF Taken, Confirmed, canTransition, Flow
  <2>3. CASE Repaid(o)
    <3>1. canTransition("refunding", "refunded")
      BY DEF canTransition, Flow
    <3>2. QED
      BY <2>3, <3>1 DEF Repaid
  <2>4. QED
    BY <2>1, <2>2, <2>3 DEF RowStep, Changed
<1>2. Inductive /\ [Next]_vars => [\A o \in Orders : Follows(o)]_vars
  BY <1>1, BoxRows
<1>3. QED
  BY <1>2, InductiveHolds, PTL DEF Spec, StatusFollowsFlow

\* However many masters grab it at once, an order gets one and keeps it.
THEOREM MasterIsKept == Spec => MasterKept
<1> DEFINE Keeps(o) == masterId[o] # NoOne => masterId'[o] = masterId[o]
<1>1. Inductive /\ RowStep => \A o \in Orders : Keeps(o)
  BY DEF RowStep, Quiet, Changed, Taken, Moved, Confirmed, Repaid, Judged, Owned
<1>2. Inductive /\ [Next]_vars => [\A o \in Orders : Keeps(o)]_vars
  BY <1>1, BoxRows
<1>3. QED
  BY <1>2, InductiveHolds, PTL DEF Spec, MasterKept

\* Two administrators at once, or a refund after a release: a settlement keeps its
\* kind, master and amounts and is reviewed at most once.
THEOREM SettlementIsFinal == Spec => SettlementFinal
<1> DEFINE Final(o) ==
      settlement[o] # NoSettlement =>
        /\ [settlement'[o] EXCEPT !.status = "pending"]
             = [settlement[o] EXCEPT !.status = "pending"]
        /\ settlement'[o] # settlement[o] => settlement[o].status = "pending"
<1>1. Inductive /\ RowStep => \A o \in Orders : Final(o)
  <2> SUFFICES ASSUME Inductive, RowStep, NEW o \in Orders,
                      settlement[o] # NoSettlement
               PROVE  Final(o)
    OBVIOUS
  <2>1. CASE settlement'[o] = settlement[o]
    BY <2>1
  <2>2. CASE Judged(o)
    <3>1. settlement[o] \in Settlement
      BY RowTyping DEF Inductive
    <3>2. PICK v \in {"credited", "rejected"} :
            settlement'[o] = [settlement[o] EXCEPT !.status = v]
      BY <2>2 DEF Judged
    <3>3. [settlement'[o] EXCEPT !.status = "pending"]
            = [settlement[o] EXCEPT !.status = "pending"]
      BY <3>1, <3>2 DEF Settlement
    <3>4. QED
      BY <2>2, <3>3 DEF Judged
  <2>3. QED
    BY <2>1, <2>2
       DEF RowStep, Quiet, Changed, Taken, Moved, Confirmed, Repaid, Released,
           Compensated
<1>2. Inductive /\ [Next]_vars => [\A o \in Orders : Final(o)]_vars
  BY <1>1, BoxRows
<1>3. QED
  BY <1>2, InductiveHolds, PTL DEF Spec, SettlementFinal

-----------------------------------------------------------------------------
(* The services implement the escrow contract.                              *)

phase  == [o \in Orders |-> Phase(status[o])]
payout == [o \in Orders |-> Payout(settlement[o])]

LEMMA PhaseOf ==
  /\ Phase("pending_payment") = "unpaid" /\ Phase("cancelled") = "void"
  /\ \A s \in PostPayStates : Phase(s) = "held"
  /\ \A s \in CompletedStates : Phase(s) = "released"
  /\ Phase("refunding") = "returning" /\ Phase("refunded") = "returned"
BY DEF Phase, PostPayStates, CompletedStates

\* The columns of the other orders are as they were.
LEMMA ContractColumns ==
  ASSUME TypeOK, TypeOK', NEW o \in Orders,
         \A p \in Orders \ {o} : Quiet(p)
  PROVE  /\ phase' = [phase EXCEPT ![o] = Phase(status'[o])]
         /\ masterId' = [masterId EXCEPT ![o] = masterId'[o]]
         /\ payout' = [payout EXCEPT ![o] = Payout(settlement'[o])]
         /\ Phase(status'[o]) = Phase(status[o]) => phase' = phase
         /\ masterId'[o] = masterId[o] => masterId' = masterId
         /\ Payout(settlement'[o]) = Payout(settlement[o]) => payout' = payout
<1>1. /\ phase = [p \in Orders |-> Phase(status[p])]
      /\ phase' = [p \in Orders |-> Phase(status'[p])]
      /\ payout = [p \in Orders |-> Payout(settlement[p])]
      /\ payout' = [p \in Orders |-> Payout(settlement'[p])]
  BY DEF phase, payout
<1>2. /\ masterId \in [Orders -> Masters \cup {NoOne}]
      /\ masterId' \in [Orders -> Masters \cup {NoOne}]
  BY DEF TypeOK
<1>3. \A p \in Orders \ {o} :
        /\ Phase(status'[p]) = Phase(status[p])
        /\ masterId'[p] = masterId[p]
        /\ Payout(settlement'[p]) = Payout(settlement[p])
  BY DEF Quiet
<1>4. /\ phase' = [phase EXCEPT ![o] = Phase(status'[o])]
      /\ Phase(status'[o]) = Phase(status[o]) => phase' = phase
  BY <1>1, <1>3
<1>5. /\ payout' = [payout EXCEPT ![o] = Payout(settlement'[o])]
      /\ Payout(settlement'[o]) = Payout(settlement[o]) => payout' = payout
  BY <1>1, <1>3
<1>6. /\ masterId' = [masterId EXCEPT ![o] = masterId'[o]]
      /\ masterId'[o] = masterId[o] => masterId' = masterId
  BY <1>2, <1>3
<1>7. QED
  BY <1>4, <1>5, <1>6

\* What the actions of the contract say about the mapped state.
LEMMA ContractActions ==
  ASSUME NEW o \in Orders
  PROVE  /\ Contract!Pay(o) <=>
              /\ phase[o] = "unpaid" /\ phase' = [phase EXCEPT ![o] = "held"]
              /\ masterId' = masterId /\ payout' = payout
         /\ Contract!Void(o) <=>
              /\ phase[o] = "unpaid" /\ phase' = [phase EXCEPT ![o] = "void"]
              /\ masterId' = masterId /\ payout' = payout
         /\ \A m : Contract!Serve(o, m) <=>
              /\ phase[o] = "held" /\ masterId[o] = NoOne
              /\ masterId' = [masterId EXCEPT ![o] = m]
              /\ phase' = phase /\ payout' = payout
         /\ Contract!Release(o) <=>
              /\ phase[o] = "held" /\ masterId[o] # NoOne /\ payout[o] = "none"
              /\ phase' = [phase EXCEPT ![o] = "released"]
              /\ payout' = [payout EXCEPT ![o] = "earnings"]
              /\ masterId' = masterId
         /\ Contract!Recall(o) <=>
              /\ phase[o] \in {"held", "released"}
              /\ phase' = [phase EXCEPT ![o] = "returning"]
              /\ masterId' = masterId /\ payout' = payout
         /\ Contract!Return(o) <=>
              /\ phase[o] \in {"held", "released", "returning"}
              /\ phase' = [phase EXCEPT ![o] = "returned"]
              /\ \/ payout' = payout
                 \/ /\ payout[o] = "none" /\ masterId[o] # NoOne
                    /\ payout' = [payout EXCEPT ![o] = "compensation"]
              /\ masterId' = masterId
BY DEF Contract!Pay, Contract!Void, Contract!Serve, Contract!Release,
       Contract!Recall, Contract!Return, phase, payout

LEMMA ContractStep ==
  ASSUME Inductive, TypeOK', RowStep
  PROVE  [Contract!Next]_(Contract!cvars)
<1>0. TypeOK
  BY DEF Inductive
<1>1. CASE \A o \in Orders : Quiet(o)
  <2>1. phase' = phase /\ payout' = payout /\ masterId' = masterId
    BY <1>0, <1>1 DEF Quiet, phase, payout, TypeOK
  <2>2. QED
    BY <2>1 DEF Contract!cvars, phase, payout
<1>2. ASSUME NEW o \in Orders, Changed(o), \A p \in Orders \ {o} : Quiet(p)
      PROVE  \/ \/ Contract!Pay(o) \/ Contract!Void(o) \/ Contract!Release(o)
                \/ Contract!Recall(o) \/ Contract!Return(o)
                \/ \E m \in Masters : Contract!Serve(o, m)
             \/ phase' = phase /\ payout' = payout /\ masterId' = masterId
  <2>0. /\ phase[o] = Phase(status[o]) /\ payout[o] = Payout(settlement[o])
        /\ OrderOK(o) /\ status[o] \in OrderStatus /\ settlement[o] \in Settlement
    BY <1>0, RowTyping DEF phase, payout, Inductive
  <2>1. CASE Taken(o)
    <3>1. Phase(status'[o]) = "held" /\ phase[o] = "held"
      BY <2>0, <2>1, PhaseOf DEF Taken, PostPayStates
    <3>2. /\ phase' = phase /\ payout' = payout
          /\ masterId' = [masterId EXCEPT ![o] = masterId'[o]]
      BY <1>0, <1>2, <2>0, <2>1, <3>1, ContractColumns DEF Taken
    <3>3. Contract!Serve(o, masterId'[o]) /\ masterId'[o] \in Masters
      BY <2>1, <3>1, <3>2, ContractActions DEF Taken, Owned
    <3>4. QED
      BY <3>3
  <2>2. CASE Moved(o)
    <3> DEFINE a == status[o]
               b == status'[o]
    <3>1. /\ b \in {"pending_accept", "cancelled"} => a = "pending_payment"
          /\ b # "pending_payment" /\ a \notin {"cancelled", "refunded"}
          /\ b \in PostPayStates \ {"pending_accept", "accepted"} =>
               a \in PostPayStates
          /\ b = "evaluated" => a = "reviewed"
          /\ b = "refunding" => a \in PostPayStates \cup CompletedStates
          /\ b \notin {"accepted", "reviewed", "refunded"} /\ b \in OrderStatus
      BY <2>2, FlowFacts DEF Moved
    <3>2. /\ masterId' = masterId /\ payout' = payout
          /\ phase' = [phase EXCEPT ![o] = Phase(b)]
          /\ Phase(b) = Phase(a) => phase' = phase
      BY <1>0, <1>2, <2>2, ContractColumns DEF Moved
    <3>3. CASE b = "pending_accept"
      <4>1. Phase(b) = "held" /\ phase[o] = "unpaid"
        BY <2>0, <3>1, <3>3, PhaseOf DEF PostPayStates
      <4>2. Contract!Pay(o)
        BY <3>2, <4>1, ContractActions
      <4>3. QED
        BY <4>2
    <3>4. CASE b = "cancelled"
      <4>1. Phase(b) = "void" /\ phase[o] = "unpaid"
        BY <2>0, <3>1, <3>4, PhaseOf
      <4>2. Contract!Void(o)
        BY <3>2, <4>1, ContractActions
      <4>3. QED
        BY <4>2
    <3>5. CASE b = "refunding"
      <4>1. Phase(b) = "returning" /\ phase[o] \in {"held", "released"}
        BY <2>0, <3>1, <3>5, PhaseOf
      <4>2. Contract!Recall(o)
        BY <3>2, <4>1, ContractActions
      <4>3. QED
        BY <4>2
    <3>6. CASE b = "evaluated"
      BY <3>1, <3>2, <3>6 DEF Phase, CompletedStates, PostPayStates
    <3>7. CASE b \in PostPayStates \ {"pending_accept"}
      BY <3>1, <3>2, <3>7, PhaseOf
    <3>8. QED
      BY <3>1, <3>3, <3>4, <3>5, <3>6, <3>7 DEF OrderStatus, PostPayStates
  <2>3. CASE Confirmed(o)
    <3>1. settlement[o] = NoSettlement
      BY <2>0, <2>3 DEF Confirmed, OrderOK, CompletedStates
    <3>2. Payout(settlement[o]) = "none" /\ Payout(settlement'[o]) = "earnings"
      BY <1>0, <2>3, <3>1, SettlementKinds DEF Confirmed, Payout, NoSettlement
    <3>3. Phase(status'[o]) = "released" /\ phase[o] = "held"
      BY <2>0, <2>3, PhaseOf DEF Confirmed, PostPayStates, CompletedStates
    <3>4. Contract!Release(o)
      BY <1>0, <1>2, <2>0, <2>3, <3>2, <3>3, ContractColumns, ContractActions
         DEF Confirmed, Owned
    <3>5. QED
      BY <3>4
  <2>4. CASE Repaid(o)
    <3>1. Phase(status'[o]) = "returned"
      BY <2>4, PhaseOf DEF Repaid
    <3>2. phase[o] \in {"held", "released", "returning"}
      <4>1. status[o] \in PostPayStates \cup CompletedStates \cup {"refunding"}
        BY <2>4, FlowFacts DEF Repaid
      <4>2. QED
        BY <2>0, <4>1, PhaseOf
    <3>3. \/ Payout(settlement'[o]) = Payout(settlement[o])
          \/ /\ Payout(settlement[o]) = "none" /\ Owned(o)
             /\ Payout(settlement'[o]) = "compensation"
      <4>1. PICK s \in RefundableStates :
              settlement'[o] \in
                {settlement[o], Compensated(o, splitRefund(Amount[o], s, Snapshot[o]))}
        BY <2>4 DEF Repaid
      <4>2. CASE settlement[o] = NoSettlement
        BY <1>0, <4>1, <4>2, SettlementKinds DEF Payout, NoSettlement
      <4>3. CASE settlement[o] # NoSettlement
        BY <4>1, <4>3 DEF Compensated
      <4>4. QED
        BY <4>2, <4>3
    <3>4. Contract!Return(o)
      BY <1>0, <1>2, <2>0, <2>4, <3>1, <3>2, <3>3, ContractColumns, ContractActions
         DEF Repaid, Owned
    <3>5. QED
      BY <3>4
  <2>5. CASE Judged(o)
    <3>1. Payout(settlement'[o]) = Payout(settlement[o])
      BY <2>0, <2>5 DEF Judged, Payout, Settlement
    <3>2. QED
      BY <1>0, <1>2, <2>5, <3>1, ContractColumns DEF Judged
  <2>6. QED
    BY <1>2, <2>1, <2>2, <2>3, <2>4, <2>5 DEF Changed
<1>3. QED
  BY <1>1, <1>2 DEF RowStep, Contract!Next, Contract!cvars, phase, payout

\* Every behaviour of the services is a behaviour of the escrow contract: one
\* master, one payout, earnings recorded in the step that releases the escrow.
THEOREM ContractIsImplemented == Spec => ContractSpec
<1>1. Init => Contract!Init
  BY DEF Init, Contract!Init, Phase, Payout, NoSettlement, PostPayStates,
         CompletedStates
<1>2. Inductive /\ [Next]_vars => [Contract!Next]_(Contract!cvars)
  BY BoxRows, ContractStep, InductiveStep DEF Inductive
<1>3. QED
  BY <1>1, <1>2, InductiveHolds, PTL DEF Spec, ContractSpec, Contract!Spec

-----------------------------------------------------------------------------
(* Money and its follow-up. What a step does to the rows of one order is one *)
(* of a few deeds, what it does to one request one of a few shapes; every    *)
(* invariant below is proved from these.                                     *)

\* A column of an order that a step leaves alone.
SameStage(o)   == status'[o] = status[o] /\ refundFrom'[o] = refundFrom[o]
SamePayment(o) == payment'[o] = payment[o]
SameReturned(o) == returned'[o] = returned[o]
SameLedger(o)  == settlement'[o] = settlement[o]
SameReview(o)  == review'[o] = review[o]

Untouched(o) ==
  /\ SameStage(o) /\ SamePayment(o)
  /\ SameReturned(o) /\ SameLedger(o) /\ SameReview(o)

ClaimOf(o) ==
  /\ status[o] = "pending_accept" /\ status'[o] = "accepted"
  /\ refundFrom'[o] = refundFrom[o] /\ masterId'[o] # masterId[o]
  /\ SamePayment(o) /\ SameReturned(o) /\ SameLedger(o)
  /\ SameReview(o)

ChargeOf(r, o) ==
  /\ req[r].op = "charge"
  /\ payment'[o] = "pending"
  /\ SameStage(o) /\ SameReturned(o) /\ SameLedger(o) /\ SameReview(o)

PaymentOf(r, o) ==
  /\ req[r].op = "notify"
  /\ status[o] = "pending_payment" /\ status'[o] = "pending_accept"
  /\ refundFrom'[o] = refundFrom[o]
  /\ payment'[o] = IF payment[o] = "none" THEN "none" ELSE "paid"
  /\ SameReturned(o) /\ SameLedger(o) /\ SameReview(o)

MoveOf(r, o) ==
  /\ req[r].op \in {"depart", "arrive", "startService", "complete", "cancel", "review"}
  /\ req[r].pc = "store"
  /\ canTransition(status[o], Target(req[r])) /\ status'[o] = Target(req[r])
  /\ refundFrom'[o] = IF Target(req[r]) = "refunding" THEN status[o] ELSE refundFrom[o]
  /\ req[r].op = "cancel" /\ req[r].stage # NoStatus =>
       req'[r].op = "refund" /\ req'[r].pc = "enter" /\ req'[r].o = o
  /\ SamePayment(o) /\ SameReturned(o) /\ SameLedger(o)
  /\ SameReview(o)

ReleaseOf(r, o) ==
  /\ req[r].op = "confirm"
  /\ status[o] = "pending_confirm" /\ status'[o] = "reviewed"
  /\ refundFrom'[o] = refundFrom[o]
  /\ settlement'[o] = Released(o)
  /\ SamePayment(o) /\ SameReturned(o) /\ SameReview(o)

ReturnOf(r, o) ==
  /\ req[r].op = "refund" /\ req[r].pc = "provider"
  /\ returned'[o] = returned[o] + Split(req[r]).refundAmount
  /\ req'[r].op = "refund" /\ req'[r].pc = "load" /\ req'[r].o = o
  /\ SameStage(o) /\ SamePayment(o) /\ SameLedger(o) /\ SameReview(o)

RefundOf(r, o) ==
  /\ req[r].op = "refund" /\ req[r].pc = "store" /\ status[o] = req[r].from
  /\ status[o] \in PostPayStates \cup CompletedStates \cup {"refunding"}
  /\ status'[o] = "refunded"
  /\ refundFrom'[o] = IF status[o] = "refunding" THEN refundFrom[o] ELSE status[o]
  /\ payment'[o] = IF payment[o] = "none" THEN "none" ELSE "refunded"
  /\ settlement'[o] \in {settlement[o], Compensated(o, Split(req[r]))}
  /\ req'[r] = Idle
  /\ SameReturned(o) /\ SameReview(o)

VerdictOf(r, o) ==
  /\ settlement[o].status = "pending" /\ settlement[o] # NoSettlement
  /\ settlement'[o].type = settlement[o].type
  /\ settlement'[o].platformFee = settlement[o].platformFee
  /\ settlement'[o].masterAmount = settlement[o].masterAmount
  /\ SameStage(o) /\ SamePayment(o) /\ SameReturned(o)
  /\ SameReview(o)

ReviewOf(r, o) ==
  /\ req[r].op = "review" /\ req[r].pc = "write" /\ review'[o]
  /\ req'[r].op = "review" /\ req'[r].pc = "load" /\ req'[r].o = o
  /\ SameStage(o) /\ SamePayment(o) /\ SameReturned(o) /\ SameLedger(o)

\* What request r, at work on o, may do to the rows of o.
Deed(r, o) ==
  \/ ChargeOf(r, o) \/ PaymentOf(r, o) \/ MoveOf(r, o) \/ ReleaseOf(r, o)
  \/ ReturnOf(r, o) \/ RefundOf(r, o) \/ VerdictOf(r, o) \/ ReviewOf(r, o)

DeedOn(o) ==
  \/ Untouched(o) \/ ClaimOf(o)
  \/ \E r \in Requests : req[r].o = o /\ req[r].pc # "idle" /\ Deed(r, o)

-----------------------------------------------------------------------------
(* What a step may do to a request.                                         *)

SameHand(s) ==
  /\ req'[s].o = req[s].o /\ req'[s].op = req[s].op
  /\ req'[s].seen = req[s].seen /\ req'[s].stage = req[s].stage

\* A handler begins, with what it has read of its order.
Opens(s, o) ==
  /\ req[s] = Idle
  /\ req'[s].o = o /\ req'[s].pc \in {"load", "write", "enter", "lookup"}
  /\ req'[s].op \in {"charge", "notify"} => status[o] = "pending_payment"
  /\ req'[s].op = "cancel" => req'[s].stage = StageToRefund(o)
  /\ req'[s].op = "refund" => req'[s].pc = "enter" /\ req'[s].stage = NoStatus
  /\ req'[s].op = "review" => req'[s].pc = "write" /\ status[o] = "reviewed"
  /\ Untouched(o)

Loads(s) ==
  /\ SameHand(s) /\ req[s].pc = "load" /\ req'[s].pc = "store"
  /\ req'[s].from = status[req[s].o]
  /\ canTransition(status[req[s].o], Target(req[s]))
  /\ Untouched(req[s].o)

Enters(s) ==
  /\ req[s].op = "refund" /\ req'[s].op = "refund" /\ req'[s].o = req[s].o
  /\ req[s].pc = "enter" /\ req'[s].pc = "guard"
  /\ status[req[s].o] \in RefundableStates
  /\ req'[s].seen = status[req[s].o] /\ req'[s].stage = StageOf(req[s])
  /\ Untouched(req[s].o)

Guards(s) ==
  /\ SameHand(s) /\ req[s].op = "refund"
  /\ req[s].pc = "guard" /\ req'[s].pc = "provider"
  /\ Untouched(req[s].o)

Returns(s) == SameHand(s) /\ ReturnOf(s, req[s].o)

Inserts(s) == SameHand(s) /\ ReviewOf(s, req[s].o)

Arrives(s) ==
  /\ req[s].op = "arrive" /\ req'[s].op = "arrive" /\ req'[s].pc = "write"
  /\ req'[s].o = req[s].o

TurnsToRefund(s) ==
  /\ req[s].op = "cancel" /\ req[s].stage # NoStatus
  /\ req'[s].op = "refund" /\ req'[s].pc = "enter"
  /\ req'[s].o = req[s].o /\ req'[s].stage = req[s].stage
  /\ status'[req[s].o] = "refunding" /\ MoveOf(s, req[s].o)

\* A request ends; why, where it is a refund or a review that did not die.
Ends(s) ==
  /\ req'[s] = Idle
  /\ LET o == req[s].o IN
       \/ Crashes
       \/ req[s].op \notin {"refund", "review"}
       \/ req[s].pc = "load" /\ ~canTransition(status[o], Target(req[s]))
       \/ req[s].pc = "store" /\ status[o] # req[s].from
       \/ req[s].pc = "enter" /\ status[o] \notin RefundableStates
       \/ req[s].pc = "guard" /\ payment[o] = "refunded"
       \/ req[s].pc = "provider" /\ RealChannels # {}
       \/ req[s].op = "review" /\ req[s].pc = "write"
       \/ req[s].op = "refund" /\ status'[o] = "refunded"
       \/ req[s].op = "review" /\ status'[o] = "evaluated"

Shape(s) ==
  \/ req'[s] = req[s] \/ (\E o \in Orders : Opens(s, o)) \/ Loads(s) \/ Enters(s)
  \/ Guards(s) \/ Returns(s) \/ Inserts(s) \/ Arrives(s) \/ TurnsToRefund(s) \/ Ends(s)

StepShape == (\A o \in Orders : DeedOn(o)) /\ (\A s \in Requests : Shape(s))

LEMMA RowsSame ==
  ASSUME UNCHANGED <<status, refundFrom, payment, settlement, review, returned>>
  PROVE  \A o : Untouched(o)
BY DEF Untouched, SameStage, SamePayment, SameReturned, SameLedger,
       SameReview

\* The record of a request after it was written.
LEMMA Written ==
  ASSUME TypeOK, NEW r \in Requests, NEW q, req' = [req EXCEPT ![r] = q]
  PROVE  req'[r] = q /\ \A s \in Requests \ {r} : req'[s] = req[s]
BY DEF TypeOK

\* A step that only moves one request on.
LEMMA HandOnly ==
  ASSUME TypeOK, NEW r \in Requests, NEW q, req' = [req EXCEPT ![r] = q],
         UNCHANGED <<status, refundFrom, payment, settlement, review, returned>>,
         req'[r] = q => Shape(r)
  PROVE  StepShape
<1>1. \A o \in Orders : DeedOn(o)
  BY RowsSame DEF DeedOn
<1>2. \A s \in Requests : Shape(s)
  BY Written DEF Shape
<1>3. QED
  BY <1>1, <1>2 DEF StepShape

\* A step of request r that writes the rows of its order.
LEMMA DeedOnly ==
  ASSUME TypeOK, NEW r \in Requests, NEW o \in Orders, req[r].o = o, req[r].pc # "idle",
         Deed(r, o), \A p \in Orders \ {o} : Untouched(p),
         Shape(r), \A s \in Requests \ {r} : req'[s] = req[s]
  PROVE  StepShape
<1>1. \A p \in Orders : DeedOn(p)
  BY DEF DeedOn
<1>2. \A s \in Requests : Shape(s)
  BY DEF Shape
<1>3. QED
  BY <1>1, <1>2 DEF StepShape

LEMMA EndStep ==
  ASSUME Inductive, NEW r \in Requests,
         \/ Crash(r) \/ TransitionRefused(r) \/ TransitionConflict(r)
         \/ RefundRefused(r) \/ VerdictConflict(r) \/ ReviewDuplicate(r)
         \/ ChargeFails(r) \/ ProviderFails(r) \/ HandleNotifyEnds(r)
  PROVE  StepShape
<1>1. /\ TypeOK /\ req' = [req EXCEPT ![r] = Idle]
      /\ UNCHANGED <<status, refundFrom, payment, settlement, review, returned>>
  BY EndShape DEF Done, orderRow, channel, tables, Inductive
<1>2. ASSUME req'[r] = Idle
      PROVE  Ends(r)
  <2>1. CASE Crash(r)
    BY <1>2, <2>1 DEF Ends, Crash
  <2>2. CASE TransitionRefused(r)
    BY <1>2, <2>2 DEF Ends, TransitionRefused
  <2>3. CASE TransitionConflict(r)
    BY <1>2, <2>3 DEF Ends, TransitionConflict, RowMatches
  <2>4. CASE RefundRefused(r)
    BY <1>2, <2>4 DEF Ends, RefundRefused
  <2>5. CASE VerdictConflict(r)
    BY <1>2, <2>5 DEF Ends, VerdictConflict, At
  <2>6. CASE ReviewDuplicate(r)
    BY <1>2, <2>6 DEF Ends, ReviewDuplicate, At
  <2>7. CASE ChargeFails(r) \/ HandleNotifyEnds(r)
    BY <1>2, <2>7 DEF Ends, ChargeFails, HandleNotifyEnds, At
  <2>8. CASE ProviderFails(r)
    BY <1>2, <2>8 DEF Ends, ProviderFails
  <2>9. QED
    BY <2>1, <2>2, <2>3, <2>4, <2>5, <2>6, <2>7, <2>8
<1>3. QED
  BY <1>1, <1>2, HandOnly DEF Shape

\* The end of a request whose last call writes nothing that has to do with money.
LEMMA ArriveCodeStep ==
  ASSUME Inductive, NEW r \in Requests, ArriveCodeWrite(r) \/ ArriveCodeClear(r)
  PROVE  StepShape
<1>1. /\ TypeOK /\ req' = [req EXCEPT ![r] = Idle] /\ req[r].op \notin {"refund", "review"}
      /\ UNCHANGED <<status, refundFrom, payment, settlement, review, returned>>
  BY DEF ArriveCodeWrite, ArriveCodeClear, At, Done, tables, channel, Inductive
<1>2. req'[r] = Idle => Shape(r)
  BY <1>1 DEF Shape, Ends
<1>3. QED
  BY <1>1, <1>2, HandOnly

\* syncForPaidOrders has nothing to create.
LEMMA SyncStep ==
  ASSUME Inductive, NEW r \in Requests, SyncWrite(r)
  PROVE  StepShape
<1>1. TypeOK /\ req[r].op = "sync" /\ req[r].o \in Orders /\ settlement[req[r].o] # NoSettlement
  BY DEF Inductive, TypeOK, SyncWrite, At, RequestOK
<1>2. settlement' = settlement
  BY <1>1, SameColumn DEF SyncWrite, Released
<1>3. /\ req' = [req EXCEPT ![r] = Idle]
      /\ UNCHANGED <<status, refundFrom, payment, settlement, review, returned>>
  BY <1>2 DEF SyncWrite, Done, orderRow, channel
<1>4. req'[r] = Idle => Shape(r)
  BY <1>1 DEF Shape, Ends
<1>5. QED
  BY <1>1, <1>3, <1>4, HandOnly

\* The handlers, as far as money goes.
LEMMA StartReads ==
  ASSUME NEW r \in Requests, NEW o \in Orders,
         \/ \E op \in Handlers : MoveStart(r, o, op)
         \/ ArriveCodeStart(r, o) \/ ArriveStart(r, o)
         \/ ConfirmStart(r, o) \/ CancelStart(r, o)
         \/ ChargeStart(r, o) \/ NotifyStart(r, o)
         \/ HandleNotifyStart(r, o) \/ RefundStart(r, o)
         \/ \E op \in Handlers : VerdictStart(r, o, op)
         \/ SyncStart(r, o) \/ ReviewStart(r, o)
  PROVE  \E op, pc, stage :
           /\ Begin(r, op, o, pc, stage)
           /\ pc \in {"load", "write", "enter", "lookup"}
           /\ op \in {"charge", "notify"} => status[o] = "pending_payment"
           /\ op = "cancel" => stage = StageToRefund(o)
           /\ op = "refund" => pc = "enter" /\ stage = NoStatus
           /\ op = "review" => pc = "write" /\ status[o] = "reviewed"
<1>1. CASE \E op \in Handlers : MoveStart(r, o, op)
  BY <1>1 DEF MoveStart
<1>2. CASE ArriveCodeStart(r, o)
  BY <1>2 DEF ArriveCodeStart
<1>3. CASE ArriveStart(r, o)
  BY <1>3 DEF ArriveStart
<1>4. CASE ConfirmStart(r, o)
  BY <1>4 DEF ConfirmStart
<1>5. CASE CancelStart(r, o)
  BY <1>5 DEF CancelStart
<1>6. CASE ChargeStart(r, o)
  BY <1>6 DEF ChargeStart, AwaitsPayment
<1>7. CASE NotifyStart(r, o) \/ HandleNotifyStart(r, o)
  BY <1>7 DEF NotifyStart, HandleNotifyStart, AwaitsPayment
<1>8. CASE RefundStart(r, o)
  BY <1>8 DEF RefundStart
<1>9. CASE \E op \in Handlers : VerdictStart(r, o, op)
  BY <1>9 DEF VerdictStart
<1>10. CASE SyncStart(r, o)
  BY <1>10 DEF SyncStart
<1>11. CASE ReviewStart(r, o)
  BY <1>11 DEF ReviewStart, AwaitsReview
<1>12. QED
  BY <1>1, <1>2, <1>3, <1>4, <1>5, <1>6, <1>7, <1>8, <1>9, <1>10, <1>11

LEMMA StartStep ==
  ASSUME Inductive, NEW r \in Requests, NEW o \in Orders,
         \/ \E op \in Handlers : MoveStart(r, o, op)
         \/ ArriveCodeStart(r, o) \/ ArriveStart(r, o)
         \/ ConfirmStart(r, o) \/ CancelStart(r, o)
         \/ ChargeStart(r, o) \/ NotifyStart(r, o)
         \/ HandleNotifyStart(r, o) \/ RefundStart(r, o)
         \/ \E op \in Handlers : VerdictStart(r, o, op)
         \/ SyncStart(r, o) \/ ReviewStart(r, o)
  PROVE  StepShape
<1>1. /\ TypeOK
      /\ UNCHANGED <<status, refundFrom, payment, settlement, review, returned>>
  BY StartShape DEF orderRow, channel, tables, Inductive, TypeOK
<1>2. PICK op, pc, stage :
           /\ Begin(r, op, o, pc, stage)
           /\ pc \in {"load", "write", "enter", "lookup"}
           /\ op \in {"charge", "notify"} => status[o] = "pending_payment"
           /\ op = "cancel" => stage = StageToRefund(o)
           /\ op = "refund" => pc = "enter" /\ stage = NoStatus
           /\ op = "review" => pc = "write" /\ status[o] = "reviewed"
  BY StartReads
<1> DEFINE q == [Idle EXCEPT !.op = op, !.o = o, !.pc = pc, !.stage = stage]
<1>3. req[r] = Idle /\ req' = [req EXCEPT ![r] = q]
  BY <1>2 DEF Begin, TakeUp
<1>4. q.op = op /\ q.o = o /\ q.pc = pc /\ q.stage = stage
  BY DEF Idle
<1> HIDE DEF q
<1>5. Untouched(o)
  BY <1>1, RowsSame
<1>6. req'[r] = q => Opens(r, o)
  BY <1>1, <1>2, <1>3, <1>4, <1>5 DEF Opens
<1>7. QED
  BY <1>1, <1>3, <1>6, HandOnly DEF Shape

LEMMA LoadStep ==
  ASSUME Inductive, NEW r \in Requests, TransitionLoad(r)
  PROVE  StepShape
<1> DEFINE q == [req[r] EXCEPT !.pc = "store", !.from = status[req[r].o]]
<1>1. TypeOK /\ req[r] \in Request /\ req[r].pc = "load"
  BY DEF Inductive, TypeOK, TransitionLoad
<1>2. /\ UNCHANGED <<status, refundFrom, payment, settlement, review, returned>>
      /\ req' = [req EXCEPT ![r] = q]
      /\ canTransition(status[req[r].o], Target(req[r]))
  BY DEF TransitionLoad, orderRow, channel, tables
<1>3. /\ q.o = req[r].o /\ q.op = req[r].op /\ q.pc = "store" /\ q.seen = req[r].seen
      /\ q.stage = req[r].stage /\ q.from = status[req[r].o]
  BY <1>1 DEF Request
<1> HIDE DEF q
<1>4. req'[r] = q => Loads(r)
  BY <1>1, <1>2, <1>3, RowsSame DEF Loads, SameHand
<1>5. QED
  BY <1>1, <1>2, <1>4, HandOnly DEF Shape

LEMMA EnterStep ==
  ASSUME Inductive, NEW r \in Requests, RefundEnter(r)
  PROVE  StepShape
<1> DEFINE o == req[r].o
           q == [req[r] EXCEPT !.pc = "guard", !.seen = status[o],
                               !.stage = StageOf(req[r]), !.hadMaster = Owned(o)]
<1>1. /\ TypeOK /\ req[r] \in Request /\ req[r].pc = "enter"
      /\ status[o] \in RefundableStates
      /\ UNCHANGED <<status, refundFrom, payment, settlement, review, returned>>
      /\ req' = [req EXCEPT ![r] = q]
  BY DEF Inductive, TypeOK, RefundEnter, orderRow, channel, tables
<1>2. req[r].op = "refund"
  BY <1>1 DEF Inductive, RequestOK
<1>3. /\ q.o = o /\ q.op = "refund" /\ q.pc = "guard" /\ q.seen = status[o]
      /\ q.stage = StageOf(req[r])
  BY <1>1, <1>2 DEF Request
<1> HIDE DEF q
<1>4. req'[r] = q => Enters(r)
  BY <1>1, <1>2, <1>3, RowsSame DEF Enters
<1>5. QED
  BY <1>1, <1>4, HandOnly DEF Shape

LEMMA GuardStep ==
  ASSUME Inductive, NEW r \in Requests, RefundGuard(r)
  PROVE  StepShape
<1>1. /\ TypeOK /\ req[r] \in Request /\ req[r].pc = "guard"
      /\ UNCHANGED <<status, refundFrom, payment, settlement, review, returned>>
  BY DEF Inductive, TypeOK, RefundGuard, orderRow, channel, tables
<1>2. req[r].op = "refund"
  BY <1>1 DEF Inductive, RequestOK
<1>3. CASE AlreadyRefunded(req[r].o)
  <2>1. req' = [req EXCEPT ![r] = Idle]
    BY <1>3 DEF RefundGuard, Done
  <2>2. req'[r] = Idle => Shape(r)
    BY <1>1, <1>3 DEF Shape, Ends, AlreadyRefunded
  <2>3. QED
    BY <1>1, <2>1, <2>2, HandOnly
<1>4. CASE ~AlreadyRefunded(req[r].o)
  <2> DEFINE q == [req[r] EXCEPT !.pc = "provider"]
  <2>1. req' = [req EXCEPT ![r] = q]
    BY <1>4 DEF RefundGuard, Goto
  <2>2. /\ q.o = req[r].o /\ q.op = "refund" /\ q.pc = "provider"
        /\ q.seen = req[r].seen /\ q.stage = req[r].stage
    BY <1>1, <1>2 DEF Request
  <2> HIDE DEF q
  <2>3. req'[r] = q => Guards(r)
    BY <1>1, <1>2, <2>2, RowsSame DEF Guards, SameHand
  <2>4. QED
    BY <1>1, <2>1, <2>3, HandOnly DEF Shape
<1>5. QED
  BY <1>3, <1>4

-----------------------------------------------------------------------------
(* The steps that write rows.                                               *)

LEMMA ClaimStep ==
  ASSUME Inductive, NEW r \in Requests, NEW o \in Orders, NEW m \in Masters,
         Claim(r, o, m)
  PROVE  StepShape
<1>1. TypeOK
  BY DEF Inductive
<1>2. /\ req' = req /\ status[o] = "pending_accept" /\ masterId[o] = NoOne
      /\ masterId' = [masterId EXCEPT ![o] = m]
      /\ status' = [status EXCEPT ![o] = "accepted"]
      /\ UNCHANGED <<refundFrom, payment, settlement, review, returned>>
  BY DEF Claim, Claimable, SetStatus, tables, channel
<1>3. ASSUME NEW p \in Orders PROVE DeedOn(p)
  <2>1. CASE p = o
    <3>1. status'[o] = "accepted" /\ masterId'[o] # masterId[o]
      BY <1>1, <1>2, OrdersAssumption DEF TypeOK
    <3>2. ClaimOf(o)
      BY <1>2, <3>1
         DEF ClaimOf, SamePayment, SameReturned, SameLedger, SameReview
    <3>3. QED
      BY <2>1, <3>2 DEF DeedOn
  <2>2. CASE p # o
    <3>1. Untouched(p)
      BY <1>1, <1>2, <2>2
         DEF TypeOK, Untouched, SameStage, SamePayment, SameReturned,
             SameLedger, SameReview
    <3>2. QED
      BY <3>1 DEF DeedOn
  <2>3. QED
    BY <2>1, <2>2
<1>4. QED
  BY <1>2, <1>3 DEF StepShape, Shape

LEMMA CaptureStep ==
  ASSUME NEW o \in Orders, Capture(o)
  PROVE  StepShape
<1>1. UNCHANGED <<status, refundFrom, payment, settlement, review, returned, req>>
  BY DEF Capture, orderRow, tables
<1>2. QED
  BY <1>1, RowsSame DEF StepShape, Shape, DeedOn

LEMMA ChargeStep ==
  ASSUME Inductive, NEW r \in Requests, ChargeWrite(r)
  PROVE  StepShape
<1>1. TypeOK /\ req[r].pc = "write" /\ req[r].op = "charge"
  BY DEF Inductive, ChargeWrite, At
<1>2. PICK o \in Orders : req[r].o = o
  BY <1>1 DEF TypeOK
<1>3. /\ payment' = [payment EXCEPT ![o] = "pending"]
      /\ UNCHANGED <<status, refundFrom, settlement, review, returned>>
      /\ req' = [req EXCEPT ![r] = Idle]
  BY <1>2 DEF ChargeWrite, Done, orderRow
<1>4. ChargeOf(r, o)
  BY <1>1, <1>3
     DEF TypeOK, ChargeOf, SameStage, SameReturned, SameLedger, SameReview
<1>5. \A p \in Orders \ {o} : Untouched(p)
  BY <1>1, <1>3
     DEF TypeOK, Untouched, SameStage, SamePayment, SameReturned, SameLedger,
         SameReview
<1>6. req'[r] = Idle /\ \A s \in Requests \ {r} : req'[s] = req[s]
  BY <1>1, <1>3, Written
<1>7. Shape(r)
  BY <1>1, <1>6 DEF Shape, Ends
<1>8. QED
  BY <1>1, <1>2, <1>4, <1>5, <1>6, <1>7, DeedOnly DEF Deed

LEMMA PaidStep ==
  ASSUME Inductive, NEW r \in Requests, PaidCommit(r)
  PROVE  StepShape
<1>1. TypeOK /\ req[r].pc = "store" /\ req[r].op = "notify"
  BY DEF Inductive, PaidCommit, At
<1>2. PICK o \in Orders : req[r].o = o
  BY <1>1 DEF TypeOK
<1>3. /\ status' = [status EXCEPT ![o] = "pending_accept"]
      /\ payment' = IF payment[o] = "none" THEN payment
                    ELSE [payment EXCEPT ![o] = "paid"]
      /\ UNCHANGED <<refundFrom, settlement, review, returned>>
      /\ req' = [req EXCEPT ![r] = Idle]
      /\ status[o] = req[r].from
  BY <1>2 DEF PaidCommit, SetStatus, RowMatches, Done, channel
<1>4. status[o] = "pending_payment"
  <2>1. canTransition(status[o], "pending_accept")
    BY <1>1, <1>3 DEF Inductive, RequestOK, Target
  <2>2. QED
    BY <2>1, FlowFacts
<1>5. /\ status'[o] = "pending_accept"
      /\ payment'[o] = IF payment[o] = "none" THEN "none" ELSE "paid"
  BY <1>1, <1>3 DEF TypeOK
<1>6. PaymentOf(r, o)
  BY <1>1, <1>3, <1>4, <1>5
     DEF PaymentOf, SameReturned, SameLedger, SameReview
<1>7. \A p \in Orders \ {o} : Untouched(p)
  BY <1>1, <1>3
     DEF TypeOK, Untouched, SameStage, SamePayment, SameReturned, SameLedger,
         SameReview
<1>8. req'[r] = Idle /\ \A s \in Requests \ {r} : req'[s] = req[s]
  BY <1>1, <1>3, Written
<1>9. Shape(r)
  BY <1>1, <1>8 DEF Shape, Ends
<1>10. QED
  BY <1>1, <1>2, <1>6, <1>7, <1>8, <1>9, DeedOnly DEF Deed

\* The request after the update of its transition: it ends, clears the code, or goes
\* on to the refund of the stage that was left.
LEMMA MoveHand ==
  ASSUME TypeOK, NEW r \in Requests, MoveCommit(r)
  PROVE  /\ \A s \in Requests \ {r} : req'[s] = req[s]
         /\ \/ req'[r] = Idle
            \/ /\ req[r].op = "arrive" /\ req'[r].op = "arrive" /\ req'[r].pc = "write"
               /\ req'[r].o = req[r].o
            \/ /\ req[r].op = "cancel" /\ req[r].stage # NoStatus
               /\ req'[r].op = "refund" /\ req'[r].pc = "enter"
               /\ req'[r].o = req[r].o /\ req'[r].stage = req[r].stage
         /\ req[r].op = "cancel" /\ req[r].stage # NoStatus =>
              req'[r].op = "refund" /\ req'[r].pc = "enter" /\ req'[r].o = req[r].o
<1>1. req[r] \in Request
  BY DEF TypeOK
<1>2. CASE req[r].op = "arrive" /\ Goto(r, "write")
  <2> DEFINE q == [req[r] EXCEPT !.pc = "write"]
  <2>1. req' = [req EXCEPT ![r] = q]
    BY <1>2 DEF Goto
  <2>2. q.op = req[r].op /\ q.pc = "write" /\ q.o = req[r].o
    BY <1>1 DEF Request
  <2> HIDE DEF q
  <2>3. req'[r] = q /\ \A s \in Requests \ {r} : req'[s] = req[s]
    BY <2>1, Written
  <2>4. QED
    BY <1>2, <2>2, <2>3
<1>3. CASE /\ req[r].op = "cancel" /\ req[r].stage # NoStatus
           /\ req' = [req EXCEPT ![r].op = "refund", ![r].pc = "enter"]
  <2> DEFINE q == [req[r] EXCEPT !.op = "refund", !.pc = "enter"]
  <2>1. req' = [req EXCEPT ![r] = q]
    BY <1>3 DEF TypeOK
  <2>2. q.op = "refund" /\ q.pc = "enter" /\ q.o = req[r].o /\ q.stage = req[r].stage
    BY <1>1 DEF Request
  <2> HIDE DEF q
  <2>3. req'[r] = q /\ \A s \in Requests \ {r} : req'[s] = req[s]
    BY <2>1, Written
  <2>4. QED
    BY <1>3, <2>2, <2>3
<1>4. CASE Done(r) /\ (req[r].op = "cancel" => req[r].stage = NoStatus)
  BY <1>4, Written DEF Done
<1>5. QED
  BY <1>2, <1>3, <1>4 DEF MoveCommit

LEMMA MoveStep ==
  ASSUME Inductive, NEW r \in Requests, MoveCommit(r)
  PROVE  StepShape
<1>1. /\ TypeOK /\ req[r].pc = "store"
      /\ req[r].op \in {"depart", "arrive", "startService", "complete", "cancel",
                        "review"}
  BY DEF Inductive, MoveCommit, At
<1>2. PICK o \in Orders : req[r].o = o
  BY <1>1 DEF TypeOK
<1>3. /\ SetStatus(o, req[r].from, Target(req[r]))
      /\ status[o] = req[r].from
      /\ UNCHANGED <<payment, settlement, review, returned>>
  BY <1>2 DEF MoveCommit, RowMatches, tables, channel
<1>4. canTransition(status[o], Target(req[r]))
  BY <1>1, <1>3 DEF Inductive, RequestOK
<1>5. /\ status'[o] = Target(req[r])
      /\ refundFrom'[o] = IF Target(req[r]) = "refunding" THEN status[o] ELSE refundFrom[o]
  BY <1>1, <1>3 DEF SetStatus, TypeOK
<1>6. MoveOf(r, o)
  BY <1>1, <1>2, <1>3, <1>4, <1>5, MoveHand
     DEF MoveOf, SamePayment, SameReturned, SameLedger, SameReview
<1>7. \A p \in Orders \ {o} : Untouched(p)
  BY <1>1, <1>3
     DEF SetStatus, TypeOK, Untouched, SameStage, SamePayment, SameReturned,
         SameLedger, SameReview
<1>8. \A s \in Requests \ {r} : req'[s] = req[s]
  BY <1>1, MoveHand
<1>9. Shape(r)
  <2>1. CASE req'[r] = Idle
    <3>1. req[r].op = "review" => status'[o] = "evaluated"
      BY <1>5 DEF Target
    <3>2. Ends(r)
      BY <1>1, <1>2, <2>1, <3>1 DEF Ends
    <3>3. QED
      BY <3>2 DEF Shape
  <2>2. CASE /\ req[r].op = "arrive" /\ req'[r].op = "arrive" /\ req'[r].pc = "write"
             /\ req'[r].o = req[r].o
    BY <2>2 DEF Shape, Arrives
  <2>3. CASE /\ req[r].op = "cancel" /\ req[r].stage # NoStatus
             /\ req'[r].op = "refund" /\ req'[r].pc = "enter"
             /\ req'[r].o = req[r].o /\ req'[r].stage = req[r].stage
    <3>1. status'[o] = "refunding"
      BY <1>5, <2>3 DEF Target
    <3>2. TurnsToRefund(r)
      BY <1>2, <1>6, <2>3, <3>1 DEF TurnsToRefund
    <3>3. QED
      BY <3>2 DEF Shape
  <2>4. QED
    BY <1>1, <2>1, <2>2, <2>3, MoveHand
<1>10. QED
  BY <1>1, <1>2, <1>6, <1>7, <1>8, <1>9, DeedOnly DEF Deed

LEMMA ReleaseStep ==
  ASSUME Inductive, NEW r \in Requests, ConfirmCommit(r)
  PROVE  StepShape
<1>1. TypeOK /\ req[r].pc = "store" /\ req[r].op = "confirm"
  BY DEF Inductive, ConfirmCommit, At
<1>2. PICK o \in Orders : req[r].o = o
  BY <1>1 DEF TypeOK
<1>3. /\ status' = [status EXCEPT ![o] = "reviewed"]
      /\ settlement' = [settlement EXCEPT ![o] = Released(o)]
      /\ UNCHANGED <<refundFrom, payment, review, returned>>
      /\ req' = [req EXCEPT ![r] = Idle]
      /\ status[o] = req[r].from
  BY <1>2 DEF ConfirmCommit, SetStatus, RowMatches, Done, channel
<1>4. status[o] = "pending_confirm"
  <2>1. canTransition(status[o], "reviewed")
    BY <1>1, <1>3 DEF Inductive, RequestOK, Target
  <2>2. QED
    BY <2>1, FlowFacts
<1>5. status'[o] = "reviewed" /\ settlement'[o] = Released(o)
  BY <1>1, <1>3 DEF TypeOK
<1>6. ReleaseOf(r, o)
  BY <1>1, <1>3, <1>4, <1>5
     DEF ReleaseOf, SamePayment, SameReturned, SameReview
<1>7. \A p \in Orders \ {o} : Untouched(p)
  BY <1>1, <1>3
     DEF TypeOK, Untouched, SameStage, SamePayment, SameReturned, SameLedger,
         SameReview
<1>8. req'[r] = Idle /\ \A s \in Requests \ {r} : req'[s] = req[s]
  BY <1>1, <1>3, Written
<1>9. Shape(r)
  BY <1>1, <1>8 DEF Shape, Ends
<1>10. QED
  BY <1>1, <1>2, <1>6, <1>7, <1>8, <1>9, DeedOnly DEF Deed

LEMMA ReturnStep ==
  ASSUME Inductive, NEW r \in Requests, ProviderRefund(r)
  PROVE  StepShape
<1> DEFINE q == [req[r] EXCEPT !.pc = "load"]
           share == Split(req[r]).refundAmount
<1>1. TypeOK /\ req[r] \in Request /\ req[r].pc = "provider"
  BY DEF Inductive, TypeOK, ProviderRefund
<1>2. PICK o \in Orders : req[r].o = o
  BY <1>1 DEF TypeOK
<1>3. req[r].op = "refund"
  BY <1>1 DEF Inductive, RequestOK
<1>4. /\ returned' = [returned EXCEPT ![o] = returned[o] + share]
      /\ req' = [req EXCEPT ![r] = q]
      /\ UNCHANGED <<status, refundFrom, payment, settlement, review>>
  BY <1>2 DEF ProviderRefund, Goto, orderRow, tables
<1>5. /\ q.o = o /\ q.op = "refund" /\ q.pc = "load" /\ q.seen = req[r].seen
      /\ q.stage = req[r].stage
  BY <1>1, <1>2, <1>3 DEF Request
<1> HIDE DEF q, share
<1>6. req'[r] = q /\ \A s \in Requests \ {r} : req'[s] = req[s]
  BY <1>1, <1>4, Written
<1>7. returned'[o] = returned[o] + share
  BY <1>1, <1>4 DEF TypeOK
<1>8. ReturnOf(r, o)
  BY <1>1, <1>3, <1>4, <1>5, <1>6, <1>7
     DEF ReturnOf, share, SameStage, SamePayment, SameLedger, SameReview
<1>9. \A p \in Orders \ {o} : Untouched(p)
  BY <1>1, <1>4
     DEF TypeOK, Untouched, SameStage, SamePayment, SameReturned, SameLedger,
         SameReview
<1>10. Shape(r)
  BY <1>2, <1>3, <1>5, <1>6, <1>8 DEF Shape, Returns, SameHand
<1>11. QED
  BY <1>1, <1>2, <1>6, <1>8, <1>9, <1>10, DeedOnly DEF Deed

LEMMA RefundStep ==
  ASSUME Inductive, NEW r \in Requests, RefundCommit(r)
  PROVE  StepShape
<1> DEFINE row(o) == Compensated(o, Split(req[r]))
<1>1. TypeOK /\ req[r].pc = "store" /\ req[r].op = "refund"
  BY DEF Inductive, RefundCommit, At
<1>2. PICK o \in Orders : req[r].o = o
  BY <1>1 DEF TypeOK
<1>3. /\ status' = [status EXCEPT ![o] = "refunded"]
      /\ refundFrom' = IF req[r].from = "refunding" THEN refundFrom
                       ELSE [refundFrom EXCEPT ![o] = req[r].from]
      /\ payment' = IF payment[o] = "none" THEN payment
                    ELSE [payment EXCEPT ![o] = "refunded"]
      /\ settlement' = IF req[r].hadMaster THEN [settlement EXCEPT ![o] = row(o)]
                       ELSE settlement
      /\ req' = [req EXCEPT ![r] = Idle]
      /\ UNCHANGED <<review, returned>>
      /\ status[o] = req[r].from
  BY <1>2 DEF RefundCommit, RowMatches, Done, channel
<1>4. status[o] \in PostPayStates \cup CompletedStates \cup {"refunding"}
  <2>1. canTransition(status[o], "refunded") \/ canTransition(status[o], "refunding")
    BY <1>1, <1>3 DEF Inductive, RequestOK, Target
  <2>2. QED
    BY <2>1, FlowFacts
<1> HIDE DEF row
<1>5. /\ status'[o] = "refunded"
      /\ refundFrom'[o] = IF status[o] = "refunding" THEN refundFrom[o] ELSE status[o]
      /\ payment'[o] = IF payment[o] = "none" THEN "none" ELSE "refunded"
      /\ settlement'[o] \in {settlement[o], row(o)}
  BY <1>1, <1>3 DEF TypeOK
<1>6. req'[r] = Idle /\ \A s \in Requests \ {r} : req'[s] = req[s]
  BY <1>1, <1>3, Written
<1>7. RefundOf(r, o)
  BY <1>1, <1>3, <1>4, <1>5, <1>6 DEF RefundOf, row, SameReturned, SameReview
<1>8. \A p \in Orders \ {o} : Untouched(p)
  BY <1>1, <1>3
     DEF TypeOK, Untouched, SameStage, SamePayment, SameReturned, SameLedger,
         SameReview
<1>9. Shape(r)
  BY <1>1, <1>2, <1>5, <1>6 DEF Shape, Ends
<1>10. QED
  BY <1>1, <1>2, <1>6, <1>7, <1>8, <1>9, DeedOnly DEF Deed

\* The verdict on a compensation changes no amount.
LEMMA VerdictStep ==
  ASSUME Inductive, NEW r \in Requests, VerdictWrite(r)
  PROVE  StepShape
<1>1. TypeOK /\ req[r].pc = "write" /\ req[r].op \in {"credit", "reject"}
  BY DEF Inductive, VerdictWrite, At
<1>2. PICK o \in Orders : req[r].o = o
  BY <1>1 DEF TypeOK
<1>3. PICK v : settlement' = [settlement EXCEPT ![o].status = v]
  BY <1>2 DEF VerdictWrite
<1>4. /\ UNCHANGED <<status, refundFrom, payment, review, returned>>
      /\ req' = [req EXCEPT ![r] = Idle]
      /\ settlement[o].status = "pending"
  BY <1>2 DEF VerdictWrite, VerdictRowMatches, IsPending, Done, orderRow, channel
<1>5. settlement[o] \in Settlement /\ settlement[o] # NoSettlement
  BY <1>1, <1>4 DEF TypeOK, NoSettlement
<1>6. /\ settlement'[o].type = settlement[o].type
      /\ settlement'[o].platformFee = settlement[o].platformFee
      /\ settlement'[o].masterAmount = settlement[o].masterAmount
      /\ \A p \in Orders \ {o} : settlement'[p] = settlement[p]
  BY <1>1, <1>3, <1>5 DEF TypeOK, Settlement
<1>7. VerdictOf(r, o)
  BY <1>4, <1>5, <1>6
     DEF VerdictOf, SameStage, SamePayment, SameReturned, SameReview
<1>8. \A p \in Orders \ {o} : Untouched(p)
  BY <1>4, <1>6
     DEF Untouched, SameStage, SamePayment, SameReturned, SameLedger,
         SameReview
<1>9. req'[r] = Idle /\ \A s \in Requests \ {r} : req'[s] = req[s]
  BY <1>1, <1>4, Written
<1>10. Shape(r)
  BY <1>1, <1>9 DEF Shape, Ends
<1>11. QED
  BY <1>1, <1>2, <1>7, <1>8, <1>9, <1>10, DeedOnly DEF Deed

LEMMA ReviewStep ==
  ASSUME Inductive, NEW r \in Requests, ReviewInsert(r)
  PROVE  StepShape
<1> DEFINE q == [req[r] EXCEPT !.pc = "load"]
<1>1. TypeOK /\ req[r] \in Request /\ req[r].pc = "write" /\ req[r].op = "review"
  BY DEF Inductive, TypeOK, ReviewInsert, At
<1>2. PICK o \in Orders : req[r].o = o
  BY <1>1 DEF TypeOK
<1>3. /\ review' = [review EXCEPT ![o] = TRUE]
      /\ UNCHANGED <<status, refundFrom, payment, settlement, returned>>
      /\ req' = [req EXCEPT ![r] = q]
  BY <1>2 DEF ReviewInsert, Goto, orderRow, channel
<1>4. /\ q.o = o /\ q.op = "review" /\ q.pc = "load" /\ q.seen = req[r].seen
      /\ q.stage = req[r].stage
  BY <1>1, <1>2 DEF Request
<1> HIDE DEF q
<1>5. req'[r] = q /\ \A s \in Requests \ {r} : req'[s] = req[s]
  BY <1>1, <1>3, Written
<1>6. ReviewOf(r, o)
  BY <1>1, <1>3, <1>4, <1>5
     DEF TypeOK, ReviewOf, SameStage, SamePayment, SameReturned, SameLedger
<1>7. \A p \in Orders \ {o} : Untouched(p)
  BY <1>1, <1>3
     DEF TypeOK, Untouched, SameStage, SamePayment, SameReturned, SameLedger,
         SameReview
<1>8. Shape(r)
  BY <1>1, <1>2, <1>4, <1>5, <1>6 DEF Shape, Inserts, SameHand
<1>9. QED
  BY <1>1, <1>2, <1>5, <1>6, <1>7, <1>8, DeedOnly DEF Deed

\* Every step is a deed on each order and a shape of each request.
LEMMA StepShapes ==
  ASSUME Inductive, Next
  PROVE  StepShape
BY NextCases, EndStep, ArriveCodeStep, SyncStep, StartStep, LoadStep, EnterStep,
   GuardStep, ClaimStep, CaptureStep, ChargeStep, PaidStep, MoveStep, ReleaseStep,
   ReturnStep, RefundStep, VerdictStep, ReviewStep

LEMMA BoxShapes == Inductive /\ [Next]_vars => StepShape
<1>1. Inductive /\ UNCHANGED vars => StepShape
  BY RowsSame DEF vars, orderRow, tables, channel, StepShape, DeedOn, Shape
<1>2. QED
  BY <1>1, StepShapes

-----------------------------------------------------------------------------
(* Paying in, whatever overlaps and whoever dies.                           *)

\* The edges of the flow, read forwards.
LEMMA FlowAhead ==
  ASSUME NEW a, NEW b, canTransition(a, b)
  PROVE  /\ a = "pending_payment" => b \in {"pending_accept", "cancelled"}
         /\ a \in CompletedStates => b \in {"evaluated", "refunding"}
         /\ a \in AfterReview => b \in AfterReview
         /\ b \in CompletedStates => a \in {"pending_confirm", "reviewed"}
<1>1. \/ <<a, b>> \in PostPayStates \X {"refunding"}
      \/ <<a, b>> \in CompletedStates \X {"refunding"}
      \/ /\ a = "pending_payment" /\ b \in {"pending_accept", "cancelled"}
      \/ a = "pending_accept" /\ b = "accepted"
      \/ a = "accepted" /\ b = "departing"
      \/ a = "departing" /\ b = "arrived"
      \/ a = "arrived" /\ b = "servicing"
      \/ a = "servicing" /\ b = "pending_confirm"
      \/ a = "pending_confirm" /\ b = "reviewed"
      \/ a = "reviewed" /\ b = "evaluated"
      \/ a = "refunding" /\ b = "refunded"
  BY DEF canTransition, Flow
<1>2. QED
  BY <1>1 DEF PostPayStates, CompletedStates, AfterReview

\* The statuses MoveCommit does not write.
LEMMA MoveTargets ==
  ASSUME NEW r, NEW o, MoveOf(r, o)
  PROVE  /\ status'[o] \notin {"pending_payment", "pending_accept", "accepted", "reviewed",
                               "refunded"}
         /\ status'[o] = "refunding" => req[r].op = "cancel" /\ req[r].stage # NoStatus
         /\ status'[o] = "evaluated" => req[r].op = "review"
BY DEF MoveOf, Target

\* A request that is not at work is idle.
Resting == \A r \in Requests : req[r].pc = "idle" => req[r] = Idle

Sound == Inductive /\ Resting

LEMMA RestingStep ==
  ASSUME Resting, StepShape
  PROVE  Resting'
<1> SUFFICES ASSUME NEW s \in Requests, req'[s].pc = "idle"
             PROVE  req'[s] = Idle
  BY DEF Resting
<1>1. Shape(s)
  BY DEF StepShape
<1>2. QED
  BY <1>1
     DEF Shape, Opens, Loads, Enters, Guards, Returns, ReturnOf, Inserts, ReviewOf,
         Arrives, TurnsToRefund, Ends, Resting

LEMMA AlwaysSound == Spec => []Sound
<1>1. Init => Resting
  BY DEF Init, Resting
<1>2. Resting /\ Inductive /\ [Next]_vars => Resting'
  BY RestingStep, BoxShapes
<1>3. QED
  BY <1>1, <1>2, InductiveHolds, PTL DEF Spec, Sound

LEMMA AtWork ==
  ASSUME Sound, NEW r \in Requests, req[r].op # "none"
  PROVE  req[r].o \in Orders /\ req[r].pc # "idle"
BY DEF Sound, Inductive, TypeOK, Resting, Idle

LEMMA DeedOf ==
  ASSUME StepShape, NEW o \in Orders
  PROVE  \/ Untouched(o) \/ ClaimOf(o)
         \/ \E r \in Requests : req[r].o = o /\ Deed(r, o)
BY DEF StepShape, DeedOn

-----------------------------------------------------------------------------
(* The payment row, while no charge overlaps a notification.                *)

LEMMA EscrowKept ==
  ASSUME Sound, EscrowInvariant, StepShape, NEW o \in Orders,
         status'[o] \in PostPayStates
  PROVE  payment'[o] \in {"none", "paid"}
<1>1. status[o] \in PostPayStates => payment[o] \in {"none", "paid"}
  BY DEF EscrowInvariant, EscrowRowIsPaid
<1>2. CASE Untouched(o) \/ ClaimOf(o)
  BY <1>1, <1>2
     DEF Untouched, ClaimOf, SameStage, SamePayment, PostPayStates
<1>3. ASSUME NEW r \in Requests, req[r].o = o, Deed(r, o)
      PROVE  payment'[o] \in {"none", "paid"}
  <2>1. CASE ChargeOf(r, o)
    <3>1. status[o] \in {"pending_payment", "cancelled"}
      BY <1>3, <2>1 DEF EscrowInvariant, ChargeHeld, ChargeOf
    <3>2. QED
      BY <2>1, <3>1 DEF ChargeOf, SameStage, PostPayStates
  <2>2. CASE PaymentOf(r, o)
    BY <2>2 DEF PaymentOf
  <2>3. CASE MoveOf(r, o)
    <3>1. status[o] \in PostPayStates
      BY <2>3, MoveTargets, FlowFacts DEF MoveOf, PostPayStates
    <3>2. QED
      BY <1>1, <2>3, <3>1 DEF MoveOf, SamePayment
  <2>4. CASE ReleaseOf(r, o) \/ RefundOf(r, o)
    BY <2>4 DEF ReleaseOf, RefundOf, PostPayStates
  <2>5. CASE ReturnOf(r, o) \/ VerdictOf(r, o) \/ ReviewOf(r, o)
    BY <1>1, <2>5 DEF ReturnOf, VerdictOf, ReviewOf, SameStage, SamePayment
  <2>6. QED
    BY <1>3, <2>1, <2>2, <2>3, <2>4, <2>5 DEF Deed
<1>4. QED
  BY <1>2, <1>3, DeedOf

\* While an order is charged, it is not moved on by a notification.
LEMMA ChargeKept ==
  ASSUME Sound, Apart({"charge"}, {"notify"}), StepShape, NEW s \in Requests,
         req[s].op = "charge", req[s].o \in Orders,
         status[req[s].o] \in {"pending_payment", "cancelled"}
  PROVE  status'[req[s].o] \in {"pending_payment", "cancelled"}
<1> DEFINE o == req[s].o
<1>1. CASE Untouched(o) \/ ClaimOf(o)
  BY <1>1 DEF Untouched, ClaimOf, SameStage
<1>2. ASSUME NEW r \in Requests, req[r].o = o, Deed(r, o)
      PROVE  status'[o] \in {"pending_payment", "cancelled"}
  <2>1. ~PaymentOf(r, o)
    BY <1>2 DEF PaymentOf, Apart
  <2>2. CASE MoveOf(r, o)
    BY <2>2, MoveTargets, FlowAhead, FlowFacts DEF MoveOf
  <2>3. CASE ReleaseOf(r, o) \/ RefundOf(r, o)
    BY <2>3 DEF ReleaseOf, RefundOf, PostPayStates, CompletedStates
  <2>4. CASE ChargeOf(r, o) \/ ReturnOf(r, o) \/ VerdictOf(r, o) \/ ReviewOf(r, o)
    BY <2>4 DEF ChargeOf, ReturnOf, VerdictOf, ReviewOf, SameStage
  <2>5. QED
    BY <1>2, <2>1, <2>2, <2>3, <2>4 DEF Deed
<1>3. QED
  BY <1>1, <1>2, DeedOf

LEMMA EscrowStep ==
  ASSUME Sound, EscrowInvariant, Apart({"charge"}, {"notify"}), StepShape
  PROVE  EscrowInvariant'
<1>1. ASSUME NEW s \in Requests, req'[s].op = "charge"
      PROVE  status'[req'[s].o] \in {"pending_payment", "cancelled"}
  <2>1. Shape(s)
    BY DEF StepShape
  <2>2. CASE req'[s] = req[s]
    <3>1. req[s].o \in Orders
      BY <1>1, <2>2, AtWork
    <3>2. status[req[s].o] \in {"pending_payment", "cancelled"}
      BY <1>1, <2>2 DEF EscrowInvariant, ChargeHeld
    <3>3. QED
      BY <1>1, <2>2, <3>1, <3>2, ChargeKept
  <2>3. CASE \E o \in Orders : Opens(s, o)
    BY <1>1, <2>3 DEF Opens, Untouched, SameStage
  <2>4. CASE Loads(s)
    BY <1>1, <2>4 DEF Loads, SameHand, EscrowInvariant, ChargeHeld, Untouched, SameStage
  <2>5. CASE \/ Enters(s) \/ Guards(s) \/ Returns(s) \/ Inserts(s) \/ Arrives(s)
             \/ TurnsToRefund(s) \/ Ends(s)
    BY <1>1, <2>5
       DEF Enters, Guards, Returns, ReturnOf, Inserts, ReviewOf, Arrives, TurnsToRefund,
           Ends, SameHand, Idle
  <2>6. QED
    BY <2>1, <2>2, <2>3, <2>4, <2>5 DEF Shape
<1>2. \A r \in Requests : ChargeHeld(req[r])'
  BY <1>1 DEF ChargeHeld
<1>3. EscrowRowIsPaid'
  BY EscrowKept DEF EscrowRowIsPaid
<1>4. QED
  BY <1>2, <1>3 DEF EscrowInvariant

\* The Payment row of an order in escrow, if a charge made one, is marked paid, whatever
\* else overlaps, dies or is refused by the channel: only a charge that overlaps the
\* notification resets the row.
THEOREM EscrowRowWasPaid == Spec /\ PaymentsApart => []EscrowRowIsPaid
<1>1. Init => EscrowInvariant
  BY DEF Init, EscrowInvariant, EscrowRowIsPaid, ChargeHeld, Idle, PostPayStates
<1>2. Sound /\ EscrowInvariant /\ Apart({"charge"}, {"notify"}) /\ [Next]_vars
        => EscrowInvariant'
  BY EscrowStep, BoxShapes DEF Sound
<1>3. EscrowInvariant => EscrowRowIsPaid
  BY DEF EscrowInvariant
<1>4. QED
  BY <1>1, <1>2, <1>3, AlwaysSound, PTL DEF Spec, PaymentsApart

-----------------------------------------------------------------------------
(* The settlement, while no refund or cancellation overlaps a confirmation. *)

\* The payout of an order, and what a refund under way knows of it.
PaidOut(o) ==
  settlement[o] # NoSettlement =>
    \/ status[o] \in CompletedStates /\ settlement[o].type = "normal"
    \/ status[o] = "refunded" /\ settlement[o].type = "compensation"

RefundGoesOn(q) ==
  \/ q.op = "cancel" /\ q.stage # NoStatus
  \/ q.op = "refund" /\ q.pc # "enter"

LEMMA PayoutParts ==
  PayoutInvariant <=>
    /\ \A o \in Orders : PaidOut(o)
    /\ \A r \in Requests : RefundGoesOn(req[r]) => status[req[r].o] \notin CompletedStates
BY DEF PayoutInvariant, PaidOut, RefundGoesOn

LEMMA PayoutPartsNext ==
  PayoutInvariant' <=>
    /\ \A o \in Orders : PaidOut(o)'
    /\ \A r \in Requests : RefundGoesOn(req'[r]) => status'[req'[r].o] \notin CompletedStates
BY DEF PayoutInvariant, PaidOut, RefundGoesOn

LEMMA PaidOutKept ==
  ASSUME PayoutInvariant, StepShape, NEW o \in Orders
  PROVE  PaidOut(o)'
<1>1. PaidOut(o)
  BY PayoutParts
<1>2. CASE Untouched(o)
  BY <1>1, <1>2 DEF PaidOut, Untouched, SameStage, SameLedger
<1>3. CASE ClaimOf(o)
  BY <1>1, <1>3 DEF PaidOut, ClaimOf, SameLedger, CompletedStates
<1>4. ASSUME NEW r \in Requests, req[r].o = o, Deed(r, o)
      PROVE  PaidOut(o)'
  <2>1. CASE ChargeOf(r, o) \/ ReturnOf(r, o) \/ ReviewOf(r, o)
    BY <1>1, <2>1 DEF PaidOut, ChargeOf, ReturnOf, ReviewOf, SameStage, SameLedger
  <2>2. CASE PaymentOf(r, o)
    BY <1>1, <2>2 DEF PaidOut, PaymentOf, SameLedger, CompletedStates
  <2>3. CASE MoveOf(r, o)
    <3>1. status[o] # "refunded"
      BY <2>3, FlowFacts DEF MoveOf
    <3>2. status[o] \in CompletedStates => status'[o] = "evaluated"
      <4>1. status[o] \in CompletedStates => status'[o] \in {"evaluated", "refunding"}
        BY <2>3, FlowAhead DEF MoveOf
      <4>2. status'[o] = "refunding" => RefundGoesOn(req[r])
        BY <2>3, MoveTargets DEF RefundGoesOn
      <4>3. QED
        BY <1>4, <4>1, <4>2, PayoutParts
    <3>3. QED
      BY <1>1, <2>3, <3>1, <3>2 DEF PaidOut, MoveOf, SameLedger, CompletedStates
  <2>4. CASE ReleaseOf(r, o)
    <3>1. settlement[o] = NoSettlement
      BY <1>1, <2>4 DEF PaidOut, ReleaseOf, CompletedStates
    <3>2. settlement'[o].type = "normal"
      BY <2>4, <3>1 DEF ReleaseOf, Released
    <3>3. QED
      BY <2>4, <3>2 DEF PaidOut, ReleaseOf, CompletedStates
  <2>5. CASE RefundOf(r, o)
    <3>1. status[o] \notin CompletedStates
      BY <1>4, <2>5, PayoutParts DEF RefundOf, RefundGoesOn
    <3>2. settlement[o] = NoSettlement
      BY <1>1, <2>5, <3>1 DEF PaidOut, RefundOf, PostPayStates, CompletedStates
    <3>3. settlement'[o] # NoSettlement => settlement'[o].type = "compensation"
      BY <2>5, <3>2 DEF RefundOf, Compensated
    <3>4. QED
      BY <2>5, <3>3 DEF PaidOut, RefundOf
  <2>6. CASE VerdictOf(r, o)
    BY <1>1, <2>6 DEF PaidOut, VerdictOf, SameStage
  <2>7. QED
    BY <1>4, <2>1, <2>2, <2>3, <2>4, <2>5, <2>6 DEF Deed
<1>5. QED
  BY <1>2, <1>3, <1>4, DeedOf

\* While it is refunded, an order is not completed.
LEMMA NotCompleted ==
  ASSUME Apart({"confirm"}, Repayers), StepShape, NEW s \in Requests,
         req[s].op \in Repayers, req[s].o \in Orders,
         status[req[s].o] \notin CompletedStates
  PROVE  status'[req[s].o] \notin CompletedStates
<1> DEFINE o == req[s].o
<1>1. CASE Untouched(o) \/ ClaimOf(o)
  BY <1>1 DEF Untouched, ClaimOf, SameStage, CompletedStates
<1>2. ASSUME NEW r \in Requests, req[r].o = o, Deed(r, o)
      PROVE  status'[o] \notin CompletedStates
  <2>1. ~ReleaseOf(r, o)
    BY <1>2 DEF ReleaseOf, Apart, Repayers
  <2>2. CASE MoveOf(r, o)
    <3>1. status'[o] # "reviewed"
      BY <2>2, MoveTargets
    <3>2. status'[o] = "evaluated" => status[o] = "reviewed"
      BY <2>2, FlowFacts DEF MoveOf
    <3>3. QED
      BY <3>1, <3>2 DEF CompletedStates
  <2>3. CASE PaymentOf(r, o) \/ RefundOf(r, o)
    BY <2>3 DEF PaymentOf, RefundOf, CompletedStates
  <2>4. CASE ChargeOf(r, o) \/ ReturnOf(r, o) \/ VerdictOf(r, o) \/ ReviewOf(r, o)
    BY <2>4 DEF ChargeOf, ReturnOf, VerdictOf, ReviewOf, SameStage
  <2>5. QED
    BY <1>2, <2>1, <2>2, <2>3, <2>4 DEF Deed
<1>3. QED
  BY <1>1, <1>2, DeedOf

LEMMA PayoutStep ==
  ASSUME Sound, PayoutInvariant, Apart({"confirm"}, Repayers), StepShape
  PROVE  PayoutInvariant'
<1>1. ASSUME NEW s \in Requests, RefundGoesOn(req'[s])
      PROVE  status'[req'[s].o] \notin CompletedStates
  <2>1. Shape(s)
    BY DEF StepShape
  <2>2. CASE req'[s] = req[s]
    <3>1. req[s].o \in Orders /\ req[s].op \in Repayers
      BY <1>1, <2>2, AtWork DEF RefundGoesOn, Repayers
    <3>2. status[req[s].o] \notin CompletedStates
      BY <1>1, <2>2, PayoutParts
    <3>3. QED
      BY <2>2, <3>1, <3>2, NotCompleted
  <2>3. CASE \E o \in Orders : Opens(s, o)
    <3>1. PICK o \in Orders : Opens(s, o)
      BY <2>3
    <3>2. req'[s].op = "cancel" /\ req'[s].stage # NoStatus
      BY <1>1, <3>1 DEF Opens, RefundGoesOn
    <3>3. status[o] \in PostPayStates
      BY <3>1, <3>2 DEF Opens, StageToRefund
    <3>4. QED
      BY <3>1, <3>3 DEF Opens, Untouched, SameStage, PostPayStates, CompletedStates
  <2>4. CASE Loads(s) \/ Guards(s)
    <3>1. RefundGoesOn(req[s]) /\ req'[s].o = req[s].o
      BY <1>1, <2>4 DEF Loads, Guards, SameHand, RefundGoesOn
    <3>2. status[req[s].o] \notin CompletedStates
      BY <3>1, PayoutParts
    <3>3. QED
      BY <2>4, <3>1, <3>2 DEF Loads, Guards, Untouched, SameStage
  <2>5. CASE Returns(s)
    <3>1. RefundGoesOn(req[s]) /\ req'[s].o = req[s].o
      BY <1>1, <2>5 DEF Returns, ReturnOf, SameHand, RefundGoesOn
    <3>2. status[req[s].o] \notin CompletedStates
      BY <3>1, PayoutParts
    <3>3. QED
      BY <2>5, <3>1, <3>2 DEF Returns, ReturnOf, SameStage
  <2>6. CASE Enters(s)
    BY <2>6 DEF Enters, Untouched, SameStage, RefundableStates, PostPayStates,
                CompletedStates
  <2>7. CASE Inserts(s) \/ Arrives(s) \/ TurnsToRefund(s) \/ Ends(s)
    BY <1>1, <2>7
       DEF Inserts, ReviewOf, Arrives, TurnsToRefund, Ends, SameHand, Idle, RefundGoesOn
  <2>8. QED
    BY <2>1, <2>2, <2>3, <2>4, <2>5, <2>6, <2>7 DEF Shape
<1>2. QED
  BY <1>1, PaidOutKept, PayoutPartsNext

LEMMA PayoutHolds == Spec /\ ReleasesApart => []PayoutInvariant
<1>1. Init => PayoutInvariant
  BY DEF Init, PayoutInvariant, Idle
<1>2. Sound /\ PayoutInvariant /\ Apart({"confirm"}, Repayers) /\ [Next]_vars
        => PayoutInvariant'
  BY PayoutStep, BoxShapes DEF Sound
<1>3. QED
  BY <1>1, <1>2, AlwaysSound, PTL DEF Spec, ReleasesApart

\* Money released to the master does not go back to the customer as well, whatever else
\* overlaps and whoever dies: only a refund that overlaps the confirmation does that.
THEOREM ReleasedIsKept == Spec /\ ReleasesApart => []ReleasedNotReturned
<1>1. PayoutInvariant => ReleasedNotReturned
  <2> SUFFICES ASSUME PayoutInvariant, NEW o \in Orders, settlement[o].type = "normal"
               PROVE  status[o] \in CompletedStates
    BY DEF ReleasedNotReturned
  <2>1. settlement[o] # NoSettlement
    BY DEF NoSettlement
  <2>2. QED
    BY <2>1 DEF PayoutInvariant
<1>2. QED
  BY <1>1, PayoutHolds, PTL

-----------------------------------------------------------------------------
(* Follow-up: what was begun has its request at work, whatever overlaps.    *)

\* The moves the handlers rely on are in the flow.
LEMMA FlowHas ==
  /\ canTransition("refunding", "refunded") /\ canTransition("reviewed", "evaluated")
  /\ canTransition("pending_payment", "cancelled")
  /\ \A s \in PostPayStates : canTransition(s, "refunding")
  /\ canTransition("accepted", "departing") /\ canTransition("departing", "arrived")
  /\ canTransition("arrived", "servicing")
  /\ canTransition("servicing", "pending_confirm")
  /\ canTransition("pending_confirm", "reviewed")
BY DEF canTransition, Flow, PostPayStates, CompletedStates

\* The rows of an order that has been reviewed never lead back.
LEMMA Onward ==
  ASSUME StepShape, NEW o \in Orders
  PROVE  /\ status[o] \in AfterReview => status'[o] \in AfterReview
         /\ status[o] = "refunded" => status'[o] = "refunded"
         /\ review[o] => review'[o]
<1>1. CASE Untouched(o) \/ ClaimOf(o)
  BY <1>1
     DEF Untouched, ClaimOf, SameStage, SameReview, AfterReview, CompletedStates
<1>2. ASSUME NEW r \in Requests, Deed(r, o)
      PROVE  /\ status[o] \in AfterReview => status'[o] \in AfterReview
             /\ status[o] = "refunded" => status'[o] = "refunded"
             /\ review[o] => review'[o]
  <2>1. CASE MoveOf(r, o)
    <3>1. status[o] # "refunded"
      BY <2>1, FlowFacts DEF MoveOf
    <3>2. QED
      BY <2>1, <3>1, FlowAhead DEF MoveOf, SameReview
  <2>2. CASE PaymentOf(r, o) \/ ReleaseOf(r, o) \/ RefundOf(r, o)
    BY <2>2
       DEF PaymentOf, ReleaseOf, RefundOf, SameReview, AfterReview, CompletedStates,
           PostPayStates
  <2>3. CASE ChargeOf(r, o) \/ ReturnOf(r, o) \/ VerdictOf(r, o) \/ ReviewOf(r, o)
    BY <2>3 DEF ChargeOf, ReturnOf, VerdictOf, ReviewOf, SameStage, SameReview
  <2>4. QED
    BY <1>2, <2>1, <2>2, <2>3 DEF Deed
<1>3. QED
  BY <1>1, <1>2, DeedOf

\* The request that refunds an order in refunding stays at it until it is done.
LEMMA RefundStays ==
  ASSUME Sound, FollowUpInvariant, StepShape, ~Crashes, RealChannels = {},
         NEW o \in Orders, status[o] = "refunding", status'[o] = "refunding",
         NEW r \in Requests, Refunds(req[r], o)
  PROVE  Refunds(req'[r], o)
<1>1. /\ req[r].op = "refund" /\ req[r].o = o
      /\ req[r].pc = "enter" \/ req[r].seen = "refunding"
  BY DEF Refunds
<1>2. Shape(r)
  BY DEF StepShape
<1>3. CASE req'[r] = req[r]
  BY <1>1, <1>3 DEF Refunds
<1>4. CASE Loads(r) \/ Guards(r)
  BY <1>1, <1>4 DEF Loads, Guards, SameHand, Refunds
<1>5. CASE Returns(r)
  BY <1>1, <1>5 DEF Returns, ReturnOf, SameHand, Refunds
<1>6. CASE Enters(r)
  BY <1>1, <1>6 DEF Enters, Refunds
<1>7. CASE Ends(r)
  <2>1. payment[o] # "refunded"
    BY DEF FollowUpInvariant, FollowedUp
  <2>2. req[r].pc # "enter" => Target(req[r]) = "refunded"
    BY <1>1 DEF Target
  <2>3. canTransition("refunding", "refunded")
    BY FlowHas
  <2>4. req[r].pc = "store" => req[r].from = "refunding"
    <3>1. req[r].pc = "store" => canTransition(req[r].from, Target(req[r]))
      BY DEF Sound, Inductive, RequestOK
    <3>2. QED
      BY <2>2, <3>1, FlowFacts
  <2>5. QED
    BY <1>1, <1>7, <2>1, <2>2, <2>3, <2>4 DEF Ends, RefundableStates
<1>8. ~((\E p \in Orders : Opens(r, p)) \/ Inserts(r) \/ Arrives(r) \/ TurnsToRefund(r))
  BY <1>1 DEF Opens, Idle, Inserts, ReviewOf, Arrives, TurnsToRefund
<1>9. QED
  BY <1>2, <1>3, <1>4, <1>5, <1>6, <1>7, <1>8 DEF Shape

\* An order that is being refunded has a request that refunds it.
LEMMA RefundCarried ==
  ASSUME Sound, FollowUpInvariant, StepShape, ~Crashes, RealChannels = {},
         NEW o \in Orders, status'[o] = "refunding"
  PROVE  \E r \in Requests : Refunds(req'[r], o)
<1>1. CASE status[o] = "refunding"
  BY <1>1, RefundStays DEF FollowUpInvariant, FollowedUp
<1>2. CASE status[o] # "refunding"
  <2>1. ~(Untouched(o) \/ ClaimOf(o))
    BY <1>2 DEF Untouched, ClaimOf, SameStage
  <2>2. PICK r \in Requests : req[r].o = o /\ Deed(r, o)
    BY <2>1, DeedOf
  <2>3. MoveOf(r, o)
    BY <1>2, <2>2
       DEF Deed, ChargeOf, PaymentOf, ReleaseOf, ReturnOf, RefundOf, VerdictOf, ReviewOf,
           SameStage
  <2>4. QED
    BY <2>3, MoveTargets DEF MoveOf, Refunds
<1>3. QED
  BY <1>1, <1>2

\* A review that was inserted keeps the request that evaluates its order.
LEMMA ReviewCarried ==
  ASSUME Sound, FollowUpInvariant, StepShape, ~Crashes,
         NEW o \in Orders, status'[o] = "reviewed", review'[o]
  PROVE  \E r \in Requests : Reviews(req'[r], o)
<1>1. CASE status[o] = "reviewed" /\ review[o]
  <2>1. PICK r \in Requests : Reviews(req[r], o)
    BY <1>1 DEF FollowUpInvariant, FollowedUp
  <2>2. req[r].op = "review" /\ req[r].o = o /\ req[r].pc \in {"load", "store"}
    BY <2>1 DEF Reviews
  <2>3. Shape(r)
    BY DEF StepShape
  <2>4. CASE req'[r] = req[r]
    BY <2>1, <2>4
  <2>5. CASE Loads(r)
    BY <2>2, <2>5 DEF Loads, SameHand, Reviews
  <2>6. CASE Ends(r)
    <3>1. Target(req[r]) = "evaluated"
      BY <2>2 DEF Target
    <3>2. canTransition("reviewed", "evaluated")
      BY FlowHas
    <3>3. req[r].pc = "store" => req[r].from = "reviewed"
      <4>1. req[r].pc = "store" => canTransition(req[r].from, Target(req[r]))
        BY DEF Sound, Inductive, RequestOK
      <4>2. QED
        BY <3>1, <4>1, FlowFacts
    <3>4. QED
      BY <1>1, <2>2, <2>6, <3>1, <3>2, <3>3 DEF Ends
  <2>7. ~( \/ \E p \in Orders : Opens(r, p)
           \/ Enters(r) \/ Guards(r) \/ Returns(r) \/ Inserts(r) \/ Arrives(r)
           \/ TurnsToRefund(r) )
    BY <2>2
       DEF Opens, Idle, Enters, Guards, Returns, ReturnOf, Inserts, ReviewOf, Arrives,
           TurnsToRefund
  <2>8. QED
    BY <2>3, <2>4, <2>5, <2>6, <2>7 DEF Shape
<1>2. CASE status[o] # "reviewed"
  <2>1. ~(Untouched(o) \/ ClaimOf(o))
    BY <1>2 DEF Untouched, ClaimOf, SameStage
  <2>2. PICK r \in Requests : Deed(r, o)
    BY <2>1, DeedOf
  <2>3. ~MoveOf(r, o)
    BY MoveTargets
  <2>4. ReleaseOf(r, o)
    BY <1>2, <2>2, <2>3
       DEF Deed, ChargeOf, PaymentOf, ReturnOf, RefundOf, VerdictOf, ReviewOf, SameStage
  <2>5. status[o] \in AfterReview
    BY <2>4 DEF ReleaseOf, SameReview, FollowUpInvariant, FollowedUp
  <2>6. QED
    BY <2>4, <2>5 DEF ReleaseOf, AfterReview, CompletedStates
<1>3. CASE ~review[o]
  <2>1. ~(Untouched(o) \/ ClaimOf(o))
    BY <1>3 DEF Untouched, ClaimOf, SameReview
  <2>2. PICK r \in Requests : req[r].o = o /\ Deed(r, o)
    BY <2>1, DeedOf
  <2>3. ReviewOf(r, o)
    BY <1>3, <2>2
       DEF Deed, ChargeOf, PaymentOf, MoveOf, ReleaseOf, ReturnOf, RefundOf, VerdictOf,
           SameReview
  <2>4. QED
    BY <2>3 DEF ReviewOf, Reviews
<1>4. QED
  BY <1>1, <1>2, <1>3

\* The review and the payment row say no more than the status.
LEMMA MarksKept ==
  ASSUME FollowUpInvariant, StepShape, NEW o \in Orders
  PROVE  /\ status'[o] = "evaluated" => review'[o]
         /\ review'[o] => status'[o] \in AfterReview
         /\ payment'[o] = "refunded" => status'[o] = "refunded"
<1>1. /\ status[o] = "evaluated" => review[o]
      /\ review[o] => status[o] \in AfterReview
      /\ payment[o] = "refunded" => status[o] = "refunded"
  BY DEF FollowUpInvariant, FollowedUp
<1>2. CASE Untouched(o) \/ ClaimOf(o)
  BY <1>1, <1>2, Onward
     DEF Untouched, ClaimOf, SameStage, SamePayment, SameReview
<1>3. ASSUME NEW r \in Requests, req[r].o = o, Deed(r, o)
      PROVE  /\ status'[o] = "evaluated" => review'[o]
             /\ review'[o] => status'[o] \in AfterReview
             /\ payment'[o] = "refunded" => status'[o] = "refunded"
  <2>1. CASE MoveOf(r, o)
    <3>1. status'[o] = "evaluated" => review[o]
      <4>1. status'[o] = "evaluated" => req[r].op = "review" /\ req[r].pc = "store"
        BY <2>1, MoveTargets DEF MoveOf
      <4>2. QED
        BY <1>3, <4>1 DEF FollowUpInvariant, ReviewHeld
    <3>2. QED
      BY <1>1, <2>1, <3>1, Onward DEF MoveOf, SamePayment, SameReview
  <2>2. CASE ReviewOf(r, o)
    <3>1. status[o] \in AfterReview
      BY <1>3, <2>2 DEF ReviewOf, FollowUpInvariant, ReviewHeld
    <3>2. QED
      BY <1>1, <2>2, <3>1 DEF ReviewOf, SameStage, SamePayment
  <2>3. CASE PaymentOf(r, o) \/ ReleaseOf(r, o) \/ RefundOf(r, o)
    BY <1>1, <2>3, Onward DEF PaymentOf, ReleaseOf, RefundOf, SamePayment, SameReview
  <2>4. CASE ChargeOf(r, o) \/ ReturnOf(r, o) \/ VerdictOf(r, o)
    BY <1>1, <2>4 DEF ChargeOf, ReturnOf, VerdictOf, SameStage, SamePayment, SameReview
  <2>5. QED
    BY <1>3, <2>1, <2>2, <2>3, <2>4 DEF Deed
<1>4. QED
  BY <1>2, <1>3, DeedOf

LEMMA ReviewHeldKept ==
  ASSUME Sound, FollowUpInvariant, StepShape, NEW s \in Requests, req'[s].op = "review"
  PROVE  /\ status'[req'[s].o] \in AfterReview
         /\ req'[s].pc \in {"load", "store"} => review'[req'[s].o]
<1>1. req[s].op = "review" =>
        /\ req[s].o \in Orders /\ status[req[s].o] \in AfterReview
        /\ req[s].pc \in {"load", "store"} => review[req[s].o]
  BY AtWork DEF FollowUpInvariant, ReviewHeld
<1>2. Shape(s)
  BY DEF StepShape
<1>3. CASE req'[s] = req[s]
  BY <1>1, <1>3, Onward
<1>4. CASE \E o \in Orders : Opens(s, o)
  BY <1>4, Onward DEF Opens, AfterReview, CompletedStates
<1>5. CASE Loads(s)
  BY <1>1, <1>5, Onward DEF Loads, SameHand
<1>6. CASE Inserts(s)
  BY <1>1, <1>6, Onward DEF Inserts, ReviewOf, SameHand
<1>7. CASE \/ Enters(s) \/ Guards(s) \/ Returns(s) \/ Arrives(s) \/ TurnsToRefund(s)
           \/ Ends(s)
  BY <1>7
     DEF Enters, Guards, Returns, ReturnOf, Arrives, TurnsToRefund, Ends, SameHand, Idle
<1>8. QED
  BY <1>2, <1>3, <1>4, <1>5, <1>6, <1>7 DEF Shape

LEMMA FollowUpStep ==
  ASSUME Sound, FollowUpInvariant, StepShape
  PROVE  FollowUpInvariant'
<1>1. ASSUME NEW o \in Orders
      PROVE  FollowedUp(o)'
  BY RefundCarried, ReviewCarried, MarksKept DEF FollowedUp
<1>2. ASSUME NEW s \in Requests
      PROVE  ReviewHeld(req[s])'
  BY ReviewHeldKept DEF ReviewHeld
<1>3. QED
  BY <1>1, <1>2 DEF FollowUpInvariant

\* What was begun is carried through, under every interleaving: an order in refunding
\* has the refund at work that will move it on, a review the request that evaluates its
\* order, unless requests may die.
THEOREM FollowUpHolds == Spec => []FollowUpInvariant
<1>1. Init => FollowUpInvariant
  BY DEF Init, FollowUpInvariant, FollowedUp, ReviewHeld, Idle
<1>2. Sound /\ FollowUpInvariant /\ [Next]_vars => FollowUpInvariant'
  BY FollowUpStep, BoxShapes DEF Sound
<1>3. QED
  BY <1>1, <1>2, AlwaysSound, PTL DEF Spec

\* Without crashes, an order that has its review is evaluated once nobody is at work on
\* it, whatever requests overlapped.
THEOREM ReviewWasEvaluated ==
  ASSUME ~Crashes
  PROVE  Spec => []ReviewedIsEvaluated
<1>1. FollowUpInvariant => ReviewedIsEvaluated
  BY DEF FollowUpInvariant, FollowedUp, Reviews, ReviewedIsEvaluated
<1>2. QED
  BY <1>1, FollowUpHolds, PTL

\* Without crashes and while nobody is at work on an order, its pages show what the
\* server accepts, and an order that has not come to an end leaves somebody a button
\* that moves it on, whatever requests overlapped before.
THEOREM PagesAlwaysLeadOn ==
  ASSUME ~Crashes, RealChannels = {}
  PROVE  Spec => []PagesLeadOn
<1>1. ASSUME Sound, FollowUpInvariant,
             NEW o \in Orders, \A r \in Requests : req[r].o # o
      PROVE  /\ \A op \in Buttons(o) : Accepted(o, op)
             /\ status[o] \notin Ended => ClientButtons(o) \cup MasterButtons(o) # {}
  <2>1. /\ status[o] # "refunding"
        /\ status[o] = "reviewed" => ~review[o]
        /\ status[o] = "evaluated" => review[o]
    BY <1>1 DEF FollowUpInvariant, FollowedUp, Refunds, Reviews
  <2>2. /\ status[o] \in {"pending_payment", "pending_accept", "cancelled"} => ~Owned(o)
        /\ status[o] \in (PostPayStates \ {"pending_accept"}) \cup CompletedStates =>
             Owned(o)
    BY <1>1 DEF Sound, Inductive, OrderOK
  <2>3. ASSUME NEW op \in ClientButtons(o)
        PROVE  Accepted(o, op)
    <3>1. CASE op = "charge"
      BY <2>3, <3>1 DEF ClientButtons, Accepted, LetIn, Moving, AwaitsPayment
    <3>2. CASE op = "arriveCode"
      BY <2>3, <3>2 DEF ClientButtons, Accepted, LetIn, Moving, Travelling
    <3>3. CASE op = "confirm"
      <4>1. status[o] = "pending_confirm"
        BY <2>3, <3>3 DEF ClientButtons
      <4>2. MoveAsked(o, op) = "reviewed"
        BY <3>3 DEF MoveAsked, Target, Idle
      <4>3. Owned(o)
        BY <2>2, <4>1 DEF PostPayStates
      <4>4. QED
        BY <3>3, <4>1, <4>2, <4>3, FlowHas DEF Accepted, LetIn
    <3>4. CASE op = "review"
      <4>1. status[o] = "reviewed" /\ ~review[o]
        BY <2>1, <2>3, <3>4 DEF ClientButtons, CompletedStates
      <4>2. MoveAsked(o, op) = "evaluated"
        BY <3>4 DEF MoveAsked, Target, Idle
      <4>3. QED
        BY <3>4, <4>1, <4>2, FlowHas DEF Accepted, LetIn, AwaitsReview
    <3>5. CASE op = "cancel"
      <4>1. status[o] \in PostPayStates \cup {"pending_payment"}
        BY <2>3, <3>5 DEF ClientButtons, CANCELABLE
      <4>2. MoveAsked(o, op) =
              IF StageToRefund(o) = NoStatus THEN "cancelled" ELSE "refunding"
        BY <3>5 DEF MoveAsked, Target, Idle
      <4>3. canTransition(status[o], MoveAsked(o, op))
        <5>1. CASE status[o] \in PostPayStates
          <6>1. MoveAsked(o, op) = "refunding"
            BY <4>2, <5>1 DEF StageToRefund, NoStatus, PostPayStates
          <6>2. QED
            BY <5>1, <6>1, FlowHas
        <5>2. CASE status[o] = "pending_payment"
          BY <4>2, <5>2, FlowHas DEF StageToRefund, PostPayStates
        <5>3. QED
          BY <4>1, <5>1, <5>2
      <4>4. QED
        BY <3>5, <4>3 DEF Accepted, LetIn
    <3>6. QED
      BY <2>3, <3>1, <3>2, <3>3, <3>4, <3>5 DEF ClientButtons
  <2>4. ASSUME NEW op \in MasterButtons(o)
        PROVE  Accepted(o, op)
    <3>1. CASE op = "claim"
      BY <2>4, <3>1 DEF MasterButtons, isPoolOrder, Accepted, LetIn, Moving, Claimable, Owned
    <3>2. CASE op # "claim"
      <4>1. \/ op = "depart"       /\ status[o] = "accepted"
            \/ op = "arrive"       /\ status[o] = "departing"
            \/ op = "startService" /\ status[o] = "arrived"
            \/ op = "complete"     /\ status[o] = "servicing"
        BY <2>4, <3>2 DEF MasterButtons
      <4>2. Owned(o)
        BY <2>2, <4>1 DEF PostPayStates
      <4>3. canTransition(status[o], MoveAsked(o, op))
        BY <4>1, FlowHas DEF MoveAsked, Target, Idle
      <4>4. QED
        BY <4>1, <4>2, <4>3 DEF Accepted, LetIn, Travelling
    <3>3. QED
      BY <3>1, <3>2
  <2>5. ASSUME NEW op \in SettlementButtons(o)
        PROVE  Accepted(o, op)
    BY <2>5 DEF SettlementButtons, Accepted, LetIn, Moving, IsPending
  <2>6. ASSUME status[o] \notin Ended
        PROVE  ClientButtons(o) \cup MasterButtons(o) # {}
    <3>1. status[o] \in OrderStatus
      BY <1>1 DEF Sound, Inductive, TypeOK
    <3>2. status[o] \in PostPayStates \cup {"pending_payment", "reviewed"}
      BY <2>1, <2>6, <3>1 DEF Ended, OrderStatus, PostPayStates
    <3>3. "cancel" \in ClientButtons(o) \/ "review" \in ClientButtons(o)
      BY <2>1, <3>2 DEF ClientButtons, CANCELABLE, CompletedStates
    <3>4. QED
      BY <3>3
  <2>7. QED
    BY <2>3, <2>4, <2>5, <2>6 DEF Buttons
<1>2. Sound /\ FollowUpInvariant => PagesLeadOn
  BY <1>1 DEF PagesLeadOn
<1>3. QED
  BY <1>2, AlwaysSound, FollowUpHolds, PTL

-----------------------------------------------------------------------------
(* Paying back, while neither visit, claim nor another refund comes between *)
(* the calls of a cancellation or refund, and no request dies.              *)

\* What RefundsApart says of a state, and of a step.
Calm == Apart(Repayers, Visits) /\ Apart({"refund"}, {"refund"})

Unclaimed ==
  \A o \in Orders, r \in Requests :
    req[r].o = o /\ req[r].op \in Repayers => masterId'[o] = masterId[o]

LEMMA CalmRequests ==
  ASSUME Calm, NEW r \in Requests, NEW s \in Requests, req[r].o = req[s].o
  PROVE  /\ req[s].op \in Repayers => req[r].op \notin Visits
         /\ req[r].op = "refund" /\ req[s].op = "refund" => r = s
<1>1. ASSUME req[s].op \in Repayers, req[r].op \in Visits
      PROVE  FALSE
  <2>1. r # s
    BY <1>1 DEF Repayers, Visits
  <2>2. QED
    BY <1>1, <2>1 DEF Calm, Apart
<1>2. QED
  BY <1>1 DEF Calm, Apart

\* The stage an order is refunded for: the one it was left at.
Left(o) == IF status[o] = "refunding" THEN refundFrom[o] ELSE status[o]

\* While an order is refunded, its row is moved on by its payment, by its review, by a
\* cancellation or by a refund.
LEMMA MovedMeanwhile ==
  ASSUME Calm, Unclaimed, StepShape,
         NEW s \in Requests, NEW o \in Orders, req[s].o = o, req[s].op \in Repayers
  PROVE  \/ SameStage(o)
         \/ \E r \in Requests :
              /\ req[r].o = o
              /\ \/ PaymentOf(r, o) \/ RefundOf(r, o)
                 \/ MoveOf(r, o) /\ req[r].op \in {"cancel", "review"}
<1>1. ~ClaimOf(o)
  BY DEF Unclaimed, ClaimOf
<1>2. CASE Untouched(o)
  BY <1>2 DEF Untouched
<1>3. ASSUME NEW r \in Requests, req[r].o = o, Deed(r, o)
      PROVE  \/ SameStage(o) \/ PaymentOf(r, o) \/ RefundOf(r, o)
             \/ MoveOf(r, o) /\ req[r].op \in {"cancel", "review"}
  <2>1. req[r].op \notin Visits
    BY <1>3, CalmRequests
  <2>2. ~ReleaseOf(r, o)
    BY <2>1 DEF ReleaseOf, Visits
  <2>3. MoveOf(r, o) => req[r].op \in {"cancel", "review"}
    BY <2>1 DEF MoveOf, Visits
  <2>4. QED
    BY <1>3, <2>2, <2>3 DEF Deed, ChargeOf, ReturnOf, VerdictOf, ReviewOf
<1>4. QED
  BY <1>1, <1>2, <1>3, DeedOf

\* A cancellation in hand: the order is still at the stage it read, or on its way to
\* its refund.
LEMMA CancelKept ==
  ASSUME Sound, Calm, Unclaimed, StepShape, NEW s \in Requests, NEW o \in Orders,
         req[s].o = o, req[s].op = "cancel", req[s].stage # NoStatus,
         status[o] \in {req[s].stage, "refunding", "refunded"}
  PROVE  status'[o] \in {req[s].stage, "refunding", "refunded"}
<1>1. req[s].stage \in RefundableStates
  BY DEF Sound, Inductive, RequestOK
<1>2. status[o] \notin {"pending_payment", "reviewed"}
  BY <1>1 DEF RefundableStates, PostPayStates
<1>3. CASE SameStage(o)
  BY <1>3 DEF SameStage
<1>4. ASSUME NEW r \in Requests, PaymentOf(r, o) \/ RefundOf(r, o)
      PROVE  status'[o] = "refunded"
  BY <1>2, <1>4 DEF PaymentOf, RefundOf
<1>5. ASSUME NEW r \in Requests, MoveOf(r, o), req[r].op \in {"cancel", "review"}
      PROVE  status'[o] = "refunding"
  <2>1. status'[o] \in {"refunding", "cancelled", "evaluated"}
    BY <1>5 DEF MoveOf, Target
  <2>2. QED
    BY <1>2, <1>5, <2>1, FlowFacts DEF MoveOf
<1>6. QED
  BY <1>3, <1>4, <1>5, MovedMeanwhile, Zenon DEF Repayers

\* A refund in hand that goes on: the row of its order does not change, or only from
\* where no refund is in sight.
LEMMA RefundRowKept ==
  ASSUME Sound, Calm, Calm', Unclaimed, StepShape, NEW s \in Requests, NEW o \in Orders,
         req[s].o = o, req[s].op = "refund", req'[s].op = "refund", req'[s].o = o
  PROVE  \/ SameStage(o)
         \/ status[o] \notin RefundableStates /\ status'[o] # "refunding"
<1>1. ASSUME NEW r \in Requests, PaymentOf(r, o)
      PROVE  status[o] \notin RefundableStates /\ status'[o] # "refunding"
  BY <1>1 DEF PaymentOf, RefundableStates, PostPayStates
<1>2. ASSUME NEW r \in Requests, req[r].o = o, RefundOf(r, o)
      PROVE  FALSE
  <2>1. r = s
    BY <1>2, CalmRequests DEF RefundOf
  <2>2. QED
    BY <1>2, <2>1 DEF RefundOf, Idle
<1>3. ASSUME NEW r \in Requests, req[r].o = o, MoveOf(r, o), req[r].op \in {"cancel", "review"}
      PROVE  status[o] \notin RefundableStates /\ status'[o] # "refunding"
  <2>1. status'[o] # "refunding"
    <3>1. ASSUME status'[o] = "refunding"
          PROVE  FALSE
      <4>1. req[r].op = "cancel" /\ req'[r].op = "refund" /\ req'[r].o = o
        BY <1>3, <3>1, MoveTargets DEF MoveOf
      <4>2. r # s
        BY <4>1
      <4>3. QED
        BY <4>1, <4>2 DEF Calm, Apart
    <3>2. QED
      BY <3>1
  <2>2. status'[o] \in {"cancelled", "evaluated"}
    BY <1>3, <2>1 DEF MoveOf, Target
  <2>3. status[o] \in {"pending_payment", "reviewed"}
    BY <1>3, <2>2, FlowFacts DEF MoveOf
  <2>4. QED
    BY <2>1, <2>3 DEF RefundableStates, PostPayStates
<1>4. QED
  BY <1>1, <1>2, <1>3, MovedMeanwhile, Zenon DEF Repayers

\* Nor does what was returned, unless by the refund itself.
LEMMA ReturnedKept ==
  ASSUME Calm, StepShape, NEW s \in Requests, NEW o \in Orders,
         req[s].o = o, req[s].op = "refund", req[s].pc # "provider"
  PROVE  SameReturned(o)
<1>1. CASE Untouched(o) \/ ClaimOf(o)
  BY <1>1 DEF Untouched, ClaimOf
<1>2. ASSUME NEW r \in Requests, req[r].o = o, Deed(r, o)
      PROVE  SameReturned(o)
  <2>1. ~ReturnOf(r, o)
    BY <1>2, CalmRequests DEF ReturnOf
  <2>2. QED
    BY <1>2, <2>1
       DEF Deed, ChargeOf, PaymentOf, MoveOf, ReleaseOf, RefundOf, VerdictOf, ReviewOf
<1>3. QED
  BY <1>1, <1>2, DeedOf

\* What a request holds, in terms of its fields.
LEMMA HeldParts ==
  ASSUME RefundInvariant, NEW q, NEW r \in Requests, q = req[r]
  PROVE  /\ q.op = "cancel" /\ q.stage # NoStatus =>
              status[q.o] \in {q.stage, "refunding", "refunded"}
         /\ q.op = "refund" /\ q.pc = "enter" =>
              q.stage = IF status[q.o] = "refunding" THEN refundFrom[q.o] ELSE NoStatus
         /\ q.op = "refund" /\ q.pc # "enter" =>
              status[q.o] \in RefundableStates /\ q.seen = status[q.o] /\ q.stage = Left(q.o)
         /\ q.op = "refund" /\ q.pc = "store" => q.from = status[q.o]
         /\ q.op = "refund" /\ q.pc \in {"load", "store"} =>
              returned[q.o] = splitRefund(Amount[q.o], q.stage, Snapshot[q.o]).refundAmount
BY DEF RefundInvariant, RefundHeld, Left, Split

\* The same of the next state.
HeldNext(s) ==
  LET o == req'[s].o IN
  /\ req'[s].op = "cancel" /\ req'[s].stage # NoStatus =>
       status'[o] \in {req'[s].stage, "refunding", "refunded"}
  /\ req'[s].op = "refund" /\ req'[s].pc = "enter" =>
       req'[s].stage = IF status'[o] = "refunding" THEN refundFrom'[o] ELSE NoStatus
  /\ req'[s].op = "refund" /\ req'[s].pc # "enter" =>
       /\ status'[o] \in RefundableStates /\ req'[s].seen = status'[o]
       /\ req'[s].stage = IF status'[o] = "refunding" THEN refundFrom'[o] ELSE status'[o]
  /\ req'[s].op = "refund" /\ req'[s].pc = "store" => req'[s].from = status'[o]
  /\ req'[s].op = "refund" /\ req'[s].pc \in {"load", "store"} =>
       returned'[o] = splitRefund(Amount[o], req'[s].stage, Snapshot[o]).refundAmount

LEMMA HeldKept ==
  ASSUME \A s \in Requests : HeldNext(s)
  PROVE  \A s \in Requests : RefundHeld(req[s])'
BY DEF HeldNext, RefundHeld, Split

\* A request that does not move.
LEMMA HeldStill ==
  ASSUME Sound, RefundInvariant, Calm, Calm', Unclaimed, StepShape,
         NEW s \in Requests, req'[s] = req[s]
  PROVE  HeldNext(s)
<1>1. CASE req[s].op = "cancel" /\ req[s].stage # NoStatus
  <2>1. req[s].o \in Orders
    BY <1>1, AtWork
  <2>2. status[req[s].o] \in {req[s].stage, "refunding", "refunded"}
    BY <1>1, HeldParts
  <2>3. status'[req[s].o] \in {req[s].stage, "refunding", "refunded"}
    BY <1>1, <2>1, <2>2, CancelKept
  <2>4. QED
    BY <1>1, <2>3 DEF HeldNext
<1>2. CASE req[s].op = "refund"
  <2> DEFINE o == req[s].o
  <2>1. o \in Orders
    BY <1>2, AtWork
  <2>2. \/ SameStage(o)
        \/ status[o] \notin RefundableStates /\ status'[o] # "refunding"
    BY <1>2, <2>1, RefundRowKept
  <2>3. CASE req[s].pc = "enter"
    <3>1. req[s].stage = IF status[o] = "refunding" THEN refundFrom[o] ELSE NoStatus
      BY <1>2, <2>3, HeldParts
    <3>2. req[s].stage = IF status'[o] = "refunding" THEN refundFrom'[o] ELSE NoStatus
      BY <2>2, <3>1 DEF SameStage, RefundableStates
    <3>3. QED
      BY <1>2, <2>3, <3>2 DEF HeldNext
  <2>4. CASE req[s].pc # "enter"
    <3>1. /\ status[o] \in RefundableStates /\ req[s].seen = status[o]
          /\ req[s].stage = Left(o)
          /\ req[s].pc = "store" => req[s].from = status[o]
          /\ req[s].pc \in {"load", "store"} =>
               returned[o] = splitRefund(Amount[o], req[s].stage, Snapshot[o]).refundAmount
      BY <1>2, <2>4, HeldParts
    <3>2. SameStage(o)
      BY <2>2, <3>1
    <3>3. req[s].pc \in {"load", "store"} => SameReturned(o)
      BY <1>2, <2>1, ReturnedKept
    <3>4. QED
      BY <1>2, <2>4, <3>1, <3>2, <3>3 DEF HeldNext, SameStage, SameReturned, Left
  <2>5. QED
    BY <2>3, <2>4
<1>3. CASE ~(req[s].op = "cancel" /\ req[s].stage # NoStatus) /\ req[s].op # "refund"
  BY <1>3 DEF HeldNext
<1>4. QED
  BY <1>1, <1>2, <1>3

\* A handler begins: no refund is asked for while one is under way.
LEMMA HeldOpened ==
  ASSUME Sound, FollowUpInvariant, Calm', StepShape, ~Crashes, RealChannels = {},
         NEW s \in Requests, NEW o \in Orders, Opens(s, o)
  PROVE  HeldNext(s)
<1>1. /\ req'[s].o = o /\ status'[o] = status[o]
      /\ req'[s].pc \in {"load", "write", "enter", "lookup"}
  BY DEF Opens, Untouched, SameStage
<1>2. CASE req'[s].op = "cancel"
  BY <1>1, <1>2 DEF Opens, StageToRefund, HeldNext
<1>3. CASE req'[s].op = "refund"
  <2>1. ASSUME status[o] = "refunding"
        PROVE  FALSE
    <3>1. PICK r \in Requests : Refunds(req[r], o)
      BY <2>1 DEF FollowUpInvariant, FollowedUp
    <3>2. Refunds(req'[r], o)
      BY <1>1, <2>1, <3>1, RefundStays
    <3>3. r # s
      BY <3>1 DEF Refunds, Opens, Idle
    <3>4. QED
      BY <1>1, <1>3, <3>2, <3>3 DEF Calm, Apart, Refunds
  <2>2. req'[s].pc = "enter" /\ req'[s].stage = NoStatus
    BY <1>3 DEF Opens
  <2>3. QED
    BY <1>1, <1>3, <2>1, <2>2 DEF HeldNext
<1>4. CASE req'[s].op \notin Repayers
  BY <1>4 DEF Repayers, HeldNext
<1>5. QED
  BY <1>2, <1>3, <1>4 DEF Repayers

\* A refund goes on from call to call.
LEMMA HeldMoved ==
  ASSUME Sound, RefundInvariant, Calm, StepShape, NEW s \in Requests,
         \/ Loads(s) \/ Enters(s) \/ Guards(s) \/ Returns(s)
  PROVE  HeldNext(s)
<1> DEFINE o == req[s].o
<1>1. CASE Loads(s)
  <2>1. /\ SameHand(s) /\ req[s].pc = "load" /\ req'[s].pc = "store"
        /\ req'[s].from = status[o] /\ SameStage(o) /\ SameReturned(o)
    BY <1>1 DEF Loads, Untouched
  <2>2. QED
    BY <2>1, HeldParts DEF HeldNext, SameHand, SameStage, SameReturned, Left
<1>2. CASE Enters(s)
  <2>1. /\ req[s].op = "refund" /\ req[s].pc = "enter"
        /\ req'[s].op = "refund" /\ req'[s].o = o /\ req'[s].pc = "guard"
        /\ status[o] \in RefundableStates /\ req'[s].seen = status[o]
        /\ req'[s].stage = StageOf(req[s]) /\ SameStage(o)
    BY <1>2 DEF Enters, Untouched
  <2>2. req[s].stage = IF status[o] = "refunding" THEN refundFrom[o] ELSE NoStatus
    BY <2>1, HeldParts
  <2>3. status[o] = "refunding" => refundFrom[o] # NoStatus
    <3>1. o \in Orders
      BY <2>1, AtWork
    <3>2. QED
      BY <3>1 DEF RefundInvariant, PaidBack, PostPayStates, NoStatus
  <2>4. StageOf(req[s]) = Left(o)
    BY <2>2, <2>3 DEF StageOf, Left
  <2>5. QED
    BY <2>1, <2>4 DEF HeldNext, SameStage, Left
<1>3. CASE Guards(s)
  <2>1. /\ SameHand(s) /\ req[s].op = "refund" /\ req[s].pc = "guard"
        /\ req'[s].pc = "provider" /\ SameStage(o)
    BY <1>3 DEF Guards, Untouched
  <2>2. QED
    BY <2>1, HeldParts DEF HeldNext, SameHand, SameStage, Left
<1>4. CASE Returns(s)
  <2>1. /\ SameHand(s) /\ req[s].op = "refund" /\ req[s].pc = "provider"
        /\ req'[s].pc = "load" /\ SameStage(o)
        /\ returned'[o] = returned[o] + Split(req[s]).refundAmount
    BY <1>4 DEF Returns, ReturnOf
  <2>2. o \in Orders
    BY <2>1, AtWork
  <2>3. status[o] # "refunded"
    BY <2>1, HeldParts DEF RefundableStates, PostPayStates
  <2>4. ~Repaying(o)
    <3>1. ASSUME NEW r \in Requests, req[r].o = o, req[r].op = "refund",
                 req[r].pc \in {"load", "store"}
          PROVE  FALSE
      <4>1. r = s
        BY <2>1, <3>1, CalmRequests
      <4>2. QED
        BY <2>1, <3>1, <4>1
    <3>2. QED
      BY <3>1 DEF Repaying
  <2>5. returned[o] = 0
    BY <2>2, <2>3, <2>4 DEF RefundInvariant, PaidBack
  <2>6. returned'[o] = splitRefund(Amount[o], req[s].stage, Snapshot[o]).refundAmount
    <3> DEFINE share == splitRefund(Amount[o], req[s].stage, Snapshot[o]).refundAmount
    <3>1. share \in Nat
      BY <2>2, SplitTypes
    <3>2. returned'[o] = returned[o] + share
      BY <2>1 DEF Split
    <3> HIDE DEF share
    <3>3. returned'[o] = share
      BY <2>5, <3>1, <3>2
    <3>4. QED
      BY <3>3 DEF share
  <2>7. QED
    BY <2>1, <2>6, HeldParts DEF HeldNext, SameHand, SameStage, Left
<1>5. QED
  BY <1>1, <1>2, <1>3, <1>4

\* A cancellation hands the stage it read over to its refund.
LEMMA HeldTurned ==
  ASSUME Sound, RefundInvariant, NEW s \in Requests, TurnsToRefund(s)
  PROVE  HeldNext(s)
<1> DEFINE o == req[s].o
<1>1. /\ req[s].op = "cancel" /\ req[s].stage # NoStatus
      /\ req'[s].op = "refund" /\ req'[s].pc = "enter" /\ req'[s].o = o
      /\ req'[s].stage = req[s].stage
      /\ status'[o] = "refunding" /\ refundFrom'[o] = status[o]
      /\ canTransition(status[o], "refunding")
  BY DEF TurnsToRefund, MoveOf
<1>2. status[o] \in {req[s].stage, "refunding", "refunded"}
  BY <1>1, HeldParts
<1>3. status[o] \notin {"refunding", "refunded"}
  BY <1>1, FlowFacts DEF PostPayStates, CompletedStates
<1>4. QED
  BY <1>1, <1>2, <1>3 DEF HeldNext

LEMMA HeldStep ==
  ASSUME Sound, FollowUpInvariant, RefundInvariant, Calm, Calm', Unclaimed, StepShape,
         ~Crashes, RealChannels = {}, NEW s \in Requests
  PROVE  HeldNext(s)
<1>1. Shape(s)
  BY DEF StepShape
<1>2. CASE Inserts(s) \/ Arrives(s) \/ Ends(s)
  BY <1>2 DEF Inserts, ReviewOf, Arrives, Ends, SameHand, Idle, HeldNext
<1>3. QED
  BY <1>1, <1>2, HeldStill, HeldOpened, HeldMoved, HeldTurned DEF Shape

\* A refund in hand, as far as its order goes.
LEMMA InHand ==
  ASSUME RefundInvariant, PayoutInvariant, NEW o \in Orders, NEW r \in Requests,
         req[r].o = o, req[r].op = "refund", req[r].pc # "enter"
  PROVE  /\ status[o] \in RefundableStates /\ req[r].stage = Left(o)
         /\ settlement[o] = NoSettlement
<1>1. status[o] \in RefundableStates /\ req[r].stage = Left(o)
  BY HeldParts
<1>2. PaidOut(o)
  BY PayoutParts
<1>3. QED
  BY <1>1, <1>2 DEF PaidOut, RefundableStates, PostPayStates, CompletedStates

\* An order in refunding was left in escrow.
LEMMA LeftInEscrow ==
  ASSUME RefundInvariant, PayoutInvariant, StepShape, NEW o \in Orders,
         status'[o] = "refunding"
  PROVE  refundFrom'[o] \in PostPayStates
<1>1. CASE status[o] = "refunding"
  <2>1. SameStage(o)
    <3>1. CASE Untouched(o) \/ ClaimOf(o)
      BY <1>1, <3>1 DEF Untouched, ClaimOf
    <3>2. ASSUME NEW r \in Requests, Deed(r, o)
          PROVE  SameStage(o)
      <4>1. ~MoveOf(r, o)
        <5>1. ~canTransition("refunding", "refunding")
          BY FlowFacts DEF PostPayStates, CompletedStates
        <5>2. QED
          BY <1>1, <5>1 DEF MoveOf
      <4>2. QED
        BY <1>1, <3>2, <4>1
           DEF Deed, ChargeOf, PaymentOf, ReleaseOf, ReturnOf, RefundOf, VerdictOf, ReviewOf
    <3>3. QED
      BY <3>1, <3>2, DeedOf
  <2>2. QED
    BY <1>1, <2>1 DEF RefundInvariant, PaidBack, SameStage
<1>2. CASE status[o] # "refunding"
  <2>1. PICK r \in Requests : req[r].o = o /\ MoveOf(r, o)
    <3>1. ~(Untouched(o) \/ ClaimOf(o))
      BY <1>2 DEF Untouched, ClaimOf, SameStage
    <3>2. PICK r \in Requests : req[r].o = o /\ Deed(r, o)
      BY <3>1, DeedOf
    <3>3. MoveOf(r, o)
      BY <1>2, <3>2
         DEF Deed, ChargeOf, PaymentOf, ReleaseOf, ReturnOf, RefundOf, VerdictOf, ReviewOf,
             SameStage
    <3>4. QED
      BY <3>2, <3>3
  <2>2. RefundGoesOn(req[r])
    BY <2>1, MoveTargets DEF RefundGoesOn
  <2>3. status[o] \notin CompletedStates
    BY <2>1, <2>2, PayoutParts
  <2>4. canTransition(status[o], "refunding") /\ refundFrom'[o] = status[o]
    BY <2>1 DEF MoveOf
  <2>5. QED
    BY <2>3, <2>4, FlowFacts
<1>3. QED
  BY <1>1, <1>2

\* A refund that was paid back goes on to the data base.
LEMMA RepayingStays ==
  ASSUME RefundInvariant, StepShape, ~Crashes, RealChannels = {}, NEW o \in Orders,
         Repaying(o), status'[o] # "refunded"
  PROVE  Repaying(o)'
<1>1. PICK r \in Requests :
        req[r].o = o /\ req[r].op = "refund" /\ req[r].pc \in {"load", "store"}
  BY DEF Repaying
<1>2. Shape(r)
  BY DEF StepShape
<1>3. CASE req'[r] = req[r]
  BY <1>1, <1>3 DEF Repaying
<1>4. CASE Loads(r)
  BY <1>1, <1>4 DEF Loads, SameHand, Repaying
<1>5. ~Ends(r)
  <2>1. /\ status[o] \in RefundableStates /\ req[r].seen = status[o]
        /\ req[r].pc = "store" => req[r].from = status[o]
    BY <1>1, HeldParts
  <2>2. Target(req[r]) = IF status[o] = "refunding" THEN "refunded" ELSE "refunding"
    BY <1>1, <2>1 DEF Target
  <2>3. canTransition(status[o], Target(req[r]))
    BY <2>1, <2>2, FlowHas DEF RefundableStates
  <2>4. QED
    BY <1>1, <2>1, <2>3 DEF Ends
<1>6. ~( \/ \E p \in Orders : Opens(r, p)
         \/ Enters(r) \/ Guards(r) \/ Returns(r) \/ Inserts(r) \/ Arrives(r)
         \/ TurnsToRefund(r) )
  BY <1>1
     DEF Opens, Idle, Enters, Guards, Returns, ReturnOf, Inserts, ReviewOf, Arrives,
         TurnsToRefund
<1>7. QED
  BY <1>2, <1>3, <1>4, <1>5, <1>6 DEF Shape

\* Nothing was returned for an order that is neither refunded nor being paid back.
LEMMA NothingReturned ==
  ASSUME RefundInvariant, StepShape, ~Crashes, RealChannels = {}, NEW o \in Orders,
         status'[o] # "refunded", ~Repaying(o)'
  PROVE  returned'[o] = 0
<1>1. status[o] # "refunded" /\ ~Repaying(o)
  BY Onward, RepayingStays
<1>2. returned[o] = 0
  BY <1>1 DEF RefundInvariant, PaidBack
<1>3. SameReturned(o)
  <2>1. CASE Untouched(o) \/ ClaimOf(o)
    BY <2>1 DEF Untouched, ClaimOf
  <2>2. ASSUME NEW r \in Requests, Deed(r, o)
        PROVE  SameReturned(o)
    <3>1. ~ReturnOf(r, o)
      BY DEF ReturnOf, Repaying
    <3>2. QED
      BY <2>2, <3>1
         DEF Deed, ChargeOf, PaymentOf, MoveOf, ReleaseOf, RefundOf, VerdictOf, ReviewOf
  <2>3. QED
    BY <2>1, <2>2, DeedOf
<1>4. QED
  BY <1>2, <1>3 DEF SameReturned

\* A refunded order stays as it is, money included.
LEMMA RefundedRests ==
  ASSUME RefundInvariant, StepShape, NEW o \in Orders, status[o] = "refunded"
  PROVE  SameStage(o) /\ SameReturned(o)
<1>1. CASE Untouched(o) \/ ClaimOf(o)
  BY <1>1 DEF Untouched, ClaimOf
<1>2. ASSUME NEW r \in Requests, req[r].o = o, Deed(r, o)
      PROVE  SameStage(o) /\ SameReturned(o)
  <2>1. ~MoveOf(r, o)
    BY FlowFacts DEF MoveOf
  <2>2. ~ReturnOf(r, o)
    BY <1>2, HeldParts DEF ReturnOf, RefundableStates, PostPayStates
  <2>3. QED
    BY <1>2, <2>1, <2>2
       DEF Deed, ChargeOf, PaymentOf, ReleaseOf, RefundOf, VerdictOf, ReviewOf,
           PostPayStates, CompletedStates
<1>3. QED
  BY <1>1, <1>2, DeedOf

\* What a refund returned, when it arrives in the data base.
LEMMA RefundArrives ==
  ASSUME RefundInvariant, NEW o \in Orders, NEW r \in Requests,
         req[r].o = o, RefundOf(r, o)
  PROVE  /\ returned[o] = Split(req[r]).refundAmount
         /\ returned'[o] = returned[o]
         /\ Split(req[r]) = splitRefund(Amount[o], refundFrom'[o], Snapshot[o])
<1>1. /\ req[r].stage = Left(o)
      /\ returned[o] = splitRefund(Amount[o], req[r].stage, Snapshot[o]).refundAmount
  BY HeldParts DEF RefundOf
<1>2. refundFrom'[o] = Left(o) /\ returned'[o] = returned[o]
  BY DEF RefundOf, Left, SameReturned
<1>3. QED
  BY <1>1, <1>2 DEF Split

LEMMA ShareReturned ==
  ASSUME RefundInvariant, StepShape, NEW o \in Orders, status'[o] = "refunded"
  PROVE  returned'[o] =
           splitRefund(Amount[o], refundFrom'[o], Snapshot[o]).refundAmount
<1>1. CASE status[o] = "refunded"
  BY <1>1, RefundedRests DEF RefundInvariant, PaidBack, SameStage, SameReturned
<1>2. CASE status[o] # "refunded"
  <2>1. ~(Untouched(o) \/ ClaimOf(o))
    BY <1>2 DEF Untouched, ClaimOf, SameStage
  <2>2. PICK r \in Requests : req[r].o = o /\ Deed(r, o)
    BY <2>1, DeedOf
  <2>3. ~MoveOf(r, o)
    BY MoveTargets
  <2>4. RefundOf(r, o)
    BY <1>2, <2>2, <2>3
       DEF Deed, ChargeOf, PaymentOf, ReleaseOf, ReturnOf, VerdictOf, ReviewOf, SameStage
  <2>5. QED
    BY <2>2, <2>4, RefundArrives
<1>3. QED
  BY <1>1, <1>2

\* What the order keeps of the money is what the split left for platform and master.
LEMMA CompensationAgrees ==
  ASSUME NEW o \in Orders, NEW s, settlement[o] = NoSettlement
  PROVE  LET split == splitRefund(Amount[o], s, Snapshot[o])
             row   == Compensated(o, split)
         IN  row # NoSettlement =>
               row.platformFee + row.masterAmount = Amount[o] - split.refundAmount
<1> DEFINE split == splitRefund(Amount[o], s, Snapshot[o])
<1>1. Amount[o] \in Nat /\ IsSnapshot(Snapshot[o])
  BY AmountAssumption, SnapshotAssumption
<1>2. /\ split.refundAmount \in Nat /\ split.platformKeep \in Nat
      /\ split.masterCompensation \in Nat
      /\ split.refundAmount + split.platformKeep + split.masterCompensation = Amount[o]
  BY <1>1, SplitRefundConserves
<1> HIDE DEF split
<1>3. split.platformKeep + split.masterCompensation = Amount[o] - split.refundAmount
  BY <1>1, <1>2
<1>4. Compensated(o, split) # NoSettlement =>
        /\ Compensated(o, split).platformFee = split.platformKeep
        /\ Compensated(o, split).masterAmount = split.masterCompensation
  BY DEF Compensated
<1>5. QED
  BY <1>3, <1>4 DEF split

\* A settlement pays out what was not returned.
LEMMA RestPaidOut ==
  ASSUME Inductive, RefundInvariant, PayoutInvariant, StepShape, NEW o \in Orders,
         settlement'[o] # NoSettlement
  PROVE  settlement'[o].platformFee + settlement'[o].masterAmount
           = IF status'[o] = "refunded" THEN Amount[o] - returned'[o] ELSE Amount[o]
<1>1. settlement[o] # NoSettlement =>
        settlement[o].platformFee + settlement[o].masterAmount
          = IF status[o] = "refunded" THEN Amount[o] - returned[o] ELSE Amount[o]
  BY DEF RefundInvariant, PaidBack
<1>2. CASE status[o] = "refunded"
  <2>1. SameStage(o) /\ SameReturned(o)
    BY <1>2, RefundedRests
  <2>2. settlement[o] # NoSettlement /\ settlement'[o].platformFee = settlement[o].platformFee
        /\ settlement'[o].masterAmount = settlement[o].masterAmount
    <3>1. CASE Untouched(o) \/ ClaimOf(o)
      BY <3>1 DEF Untouched, ClaimOf, SameLedger
    <3>2. ASSUME NEW r \in Requests, Deed(r, o)
          PROVE  \/ SameLedger(o)
                 \/ /\ settlement[o] # NoSettlement
                    /\ settlement'[o].platformFee = settlement[o].platformFee
                    /\ settlement'[o].masterAmount = settlement[o].masterAmount
      BY <1>2, <3>2
         DEF Deed, ChargeOf, PaymentOf, MoveOf, ReleaseOf, ReturnOf, RefundOf, VerdictOf,
             ReviewOf, PostPayStates, CompletedStates
    <3>3. QED
      BY <3>1, <3>2, DeedOf DEF SameLedger
  <2>3. QED
    BY <1>1, <1>2, <2>1, <2>2 DEF SameStage, SameReturned
<1>3. CASE status[o] # "refunded"
  <2>1. CASE Untouched(o) \/ ClaimOf(o)
    BY <1>1, <1>3, <2>1 DEF Untouched, ClaimOf, SameStage, SameLedger
  <2>2. ASSUME NEW r \in Requests, req[r].o = o, Deed(r, o)
        PROVE  settlement'[o].platformFee + settlement'[o].masterAmount
                 = IF status'[o] = "refunded" THEN Amount[o] - returned'[o] ELSE Amount[o]
    <3>1. CASE ChargeOf(r, o) \/ ReturnOf(r, o) \/ ReviewOf(r, o) \/ PaymentOf(r, o)
      BY <1>1, <1>3, <3>1
         DEF ChargeOf, ReturnOf, ReviewOf, PaymentOf, SameStage, SameLedger
    <3>2. CASE MoveOf(r, o)
      BY <1>1, <1>3, <3>2, MoveTargets DEF MoveOf, SameLedger
    <3>3. CASE VerdictOf(r, o)
      BY <1>1, <1>3, <3>3 DEF VerdictOf, SameStage
    <3>4. CASE ReleaseOf(r, o)
      <4>1. settlement[o] = NoSettlement
        BY <3>4, PayoutParts DEF PaidOut, ReleaseOf, CompletedStates
      <4>2. Amount[o] \in Nat /\ IsSnapshot(Snapshot[o])
        BY AmountAssumption, SnapshotAssumption
      <4>3. Released(o).platformFee + Released(o).masterAmount = Amount[o]
        BY <4>1, <4>2, SplitNormalConserves DEF Released
      <4>4. QED
        BY <3>4, <4>3 DEF ReleaseOf
    <3>5. CASE RefundOf(r, o)
      <4>1. settlement[o] = NoSettlement
        BY <2>2, <3>5, InHand DEF RefundOf
      <4>2. settlement'[o] = Compensated(o, Split(req[r])) /\ status'[o] = "refunded"
        BY <3>5, <4>1 DEF RefundOf
      <4>3. /\ returned'[o] = Split(req[r]).refundAmount
            /\ Split(req[r]) = splitRefund(Amount[o], refundFrom'[o], Snapshot[o])
        BY <2>2, <3>5, RefundArrives
      <4>4. QED
        BY <4>1, <4>2, <4>3, CompensationAgrees
    <3>6. QED
      BY <2>2, <3>1, <3>2, <3>3, <3>4, <3>5 DEF Deed
  <2>3. QED
    BY <2>1, <2>2, DeedOf
<1>4. QED
  BY <1>2, <1>3

LEMMA RefundInvariantStep ==
  ASSUME Sound, FollowUpInvariant, PayoutInvariant, RefundInvariant,
         Calm, Calm', Unclaimed, StepShape, ~Crashes, RealChannels = {}
  PROVE  RefundInvariant'
<1>1. ASSUME NEW o \in Orders
      PROVE  PaidBack(o)'
  <2>1. status'[o] = "refunding" => refundFrom'[o] \in PostPayStates
    BY LeftInEscrow
  <2>2. status'[o] # "refunded" /\ ~Repaying(o)' => returned'[o] = 0
    BY NothingReturned
  <2>3. status'[o] = "refunded" =>
          returned'[o] = splitRefund(Amount[o], refundFrom'[o], Snapshot[o]).refundAmount
    BY ShareReturned
  <2>4. settlement'[o] # NoSettlement =>
          settlement'[o].platformFee + settlement'[o].masterAmount
            = IF status'[o] = "refunded" THEN Amount[o] - returned'[o] ELSE Amount[o]
    BY RestPaidOut DEF Sound
  <2>5. QED
    BY <2>1, <2>2, <2>3, <2>4 DEF PaidBack
<1>2. \A s \in Requests : RefundHeld(req[s])'
  BY HeldStep, HeldKept
<1>3. QED
  BY <1>1, <1>2 DEF RefundInvariant

\* What the hypothesis says of the handlers that confirm and refund.
LEMMA RefundsAreReleases == Spec /\ RefundsApart => ReleasesApart
<1>1. Apart(Repayers, Visits) => Apart({"confirm"}, Repayers)
  BY DEF Apart, Visits
<1>2. QED
  BY <1>1, PTL DEF RefundsApart, ReleasesApart

\* Without crashes, what was returned and what is left for master and platform is what
\* the split gives for the stage the order was left at, while nothing that moves the
\* visit on, claims the order or refunds it comes between the calls of a refund.
THEOREM RefundHolds ==
  ASSUME ~Crashes, RealChannels = {}
  PROVE  Spec /\ RefundsApart => []RefundInvariant
<1>1. Init => RefundInvariant
  BY DEF Init, RefundInvariant, PaidBack, RefundHeld, Idle
<1>2. /\ Sound /\ FollowUpInvariant /\ PayoutInvariant /\ RefundInvariant
      /\ Calm /\ Calm' /\ [Next]_vars /\ [Unclaimed]_vars
      => RefundInvariant'
  <2>1. UNCHANGED vars => Unclaimed
    BY DEF Unclaimed, vars, orderRow
  <2>2. QED
    BY <2>1, RefundInvariantStep, BoxShapes DEF Sound
<1>3. RefundsApart => []Calm /\ [][Unclaimed]_vars
  BY PTL DEF RefundsApart, Calm, Unclaimed
<1>4. QED
  BY <1>1, <1>2, <1>3, AlwaysSound, FollowUpHolds, PayoutHolds, RefundsAreReleases, PTL
     DEF Spec

\* A split never gives the customer more than the amount of the order.
LEMMA ShareBounded ==
  ASSUME NEW o \in Orders, NEW s
  PROVE  splitRefund(Amount[o], s, Snapshot[o]).refundAmount <= Amount[o]
<1>1. Amount[o] \in Nat /\ IsSnapshot(Snapshot[o])
  BY AmountAssumption, SnapshotAssumption
<1>2. splitRefund(Amount[o], s, Snapshot[o]).refundAmount \in 0..Amount[o]
  BY <1>1, SplitRefundConserves
<1>3. QED
  BY <1>1, <1>2

\* While an order is being paid back, it has no settlement.
LEMMA RepayingIsHeld ==
  ASSUME PayoutInvariant, RefundInvariant, NEW o \in Orders, Repaying(o)
  PROVE  settlement[o] = NoSettlement /\ returned[o] <= Amount[o]
<1>1. PICK r \in Requests :
        req[r].o = o /\ req[r].op = "refund" /\ req[r].pc \in {"load", "store"}
  BY DEF Repaying
<1>2. settlement[o] = NoSettlement
  BY <1>1, InHand
<1>3. returned[o] = splitRefund(Amount[o], req[r].stage, Snapshot[o]).refundAmount
  BY <1>1, HeldParts
<1>4. QED
  BY <1>2, <1>3, ShareBounded

\* What is paid back of an order is never more than its price: no refund is acknowledged
\* twice.
THEOREM ReturnedIsWithinPrice ==
  ASSUME ~Crashes, RealChannels = {}
  PROVE  Spec /\ RefundsApart => []ReturnedAtMostPrice
<1>1. PayoutInvariant /\ RefundInvariant => ReturnedAtMostPrice
  <2> SUFFICES ASSUME PayoutInvariant, RefundInvariant, NEW o \in Orders
               PROVE  returned[o] <= Amount[o]
    BY DEF ReturnedAtMostPrice
  <2>1. PaidBack(o) /\ Amount[o] \in Nat
    BY AmountAssumption DEF RefundInvariant
  <2>2. CASE Repaying(o)
    BY <2>2, RepayingIsHeld
  <2>3. CASE status[o] = "refunded"
    BY <2>1, <2>3, ShareBounded DEF PaidBack
  <2>4. CASE status[o] # "refunded" /\ ~Repaying(o)
    BY <2>1, <2>4 DEF PaidBack
  <2>5. QED
    BY <2>2, <2>3, <2>4
<1>2. QED
  BY <1>1, PayoutHolds, RefundHolds, RefundsAreReleases, PTL

\* A refunded customer got the share of the stage the order was left at, whether the
\* refund was asked for or came with a cancellation.
THEOREM RefundIsOfItsStage ==
  ASSUME ~Crashes, RealChannels = {}
  PROVE  Spec /\ RefundsApart => []RefundMatchesStage
<1>1. RefundInvariant => RefundMatchesStage
  BY DEF RefundInvariant, PaidBack, RefundMatchesStage
<1>2. QED
  BY <1>1, RefundHolds, PTL

\* The refund a settlement row shows is what the channel paid back, to the cent.
THEOREM ShownRefundWasPaid ==
  ASSUME ~Crashes, RealChannels = {}
  PROVE  Spec /\ RefundsApart => []ShownRefundIsReal
<1>1. /\ Inductive /\ PayoutInvariant /\ RefundInvariant
      => ShownRefundIsReal
  <2> SUFFICES ASSUME Inductive, PayoutInvariant, RefundInvariant,
                      NEW o \in Orders, settlement[o] # NoSettlement
               PROVE  returned[o] =
                        Amount[o] - settlement[o].platformFee - settlement[o].masterAmount
    BY DEF ShownRefundIsReal
  <2> DEFINE fee == settlement[o].platformFee
             due == settlement[o].masterAmount
  <2>1. PaidBack(o)
    BY DEF RefundInvariant
  <2>2. /\ fee \in Int /\ due \in Int
        /\ returned[o] \in Nat /\ Amount[o] \in Nat
    BY AmountAssumption DEF Inductive, TypeOK, Settlement
  <2>3. status[o] # "refunded" => returned[o] = 0
    BY <2>1, RepayingIsHeld DEF PaidBack
  <2>4. fee + due = Amount[o] - returned[o]
    BY <2>1, <2>2, <2>3 DEF PaidBack
  <2> HIDE DEF fee, due
  <2>5. returned[o] = Amount[o] - fee - due
    BY <2>2, <2>4
  <2>6. QED
    BY <2>5 DEF fee, due
<1>2. QED
  BY <1>1, InductiveHolds, PayoutHolds, RefundHolds, RefundsAreReleases, PTL

\* Only the claim of an order writes its master.
LEMMA MasterWriters ==
  ASSUME Next
  PROVE  \/ masterId' = masterId
         \/ \E r \in Requests, o \in Orders, m \in Masters : Claim(r, o, m)
<1>1. ASSUME NEW r \in Requests,
             \/ Crash(r) \/ TransitionRefused(r) \/ TransitionConflict(r)
             \/ RefundRefused(r) \/ VerdictConflict(r) \/ ReviewDuplicate(r)
             \/ ChargeFails(r) \/ ProviderFails(r) \/ HandleNotifyEnds(r)
      PROVE  masterId' = masterId
  BY <1>1, EndShape DEF orderRow
<1>2. ASSUME NEW r \in Requests, NEW o \in Orders,
             \/ \E op \in Handlers : MoveStart(r, o, op)
             \/ ArriveCodeStart(r, o) \/ ArriveStart(r, o)
             \/ ConfirmStart(r, o) \/ CancelStart(r, o)
             \/ ChargeStart(r, o) \/ NotifyStart(r, o)
             \/ HandleNotifyStart(r, o) \/ RefundStart(r, o)
             \/ \E op \in Handlers : VerdictStart(r, o, op)
             \/ SyncStart(r, o) \/ ReviewStart(r, o)
      PROVE  masterId' = masterId
  BY <1>2, StartShape DEF orderRow
<1>3. ASSUME NEW r \in Requests,
             \/ TransitionLoad(r) \/ ArriveCodeWrite(r) \/ ArriveCodeClear(r)
             \/ ConfirmCommit(r) \/ MoveCommit(r) \/ ChargeWrite(r) \/ PaidCommit(r)
             \/ RefundEnter(r) \/ RefundGuard(r) \/ ProviderRefund(r)
             \/ RefundCommit(r) \/ VerdictWrite(r) \/ SyncWrite(r) \/ ReviewInsert(r)
      PROVE  masterId' = masterId
  BY <1>3
     DEF TransitionLoad, ArriveCodeWrite, ArriveCodeClear, ConfirmCommit, MoveCommit,
         ChargeWrite, PaidCommit, RefundEnter, RefundGuard, ProviderRefund,
         RefundCommit, VerdictWrite, SyncWrite, ReviewInsert, orderRow
<1>4. ASSUME NEW o \in Orders, Capture(o)
      PROVE  masterId' = masterId
  BY <1>4 DEF Capture, orderRow
<1>5. QED
  BY <1>1, <1>2, <1>3, <1>4, NextCases

\* Requests that come one by one do not overlap: what is proved above holds in
\* particular where the server works on a single request at a time.
THEOREM SingleRequest ==
  ASSUME \A r, s \in Requests : r = s
  PROVE  Spec => PaymentsApart /\ ReleasesApart /\ RefundsApart
<1>1. /\ Apart({"charge"}, {"notify"}) /\ Apart({"confirm"}, Repayers)
      /\ Apart(Repayers, Visits) /\ Apart({"refund"}, {"refund"})
  BY DEF Apart
<1>2. Sound /\ [Next]_vars => [Unclaimed]_vars
  <2> SUFFICES ASSUME Sound, Next, NEW o \in Orders, NEW r \in Requests, req[r].o = o,
                      req[r].op \in Repayers
               PROVE  masterId'[o] = masterId[o]
    BY DEF Unclaimed
  <2>1. ASSUME NEW s \in Requests, NEW p \in Orders, NEW m \in Masters, Claim(s, p, m)
        PROVE  FALSE
    BY <2>1 DEF Claim, Idle, Repayers
  <2>2. QED
    BY <2>1, MasterWriters
<1>3. /\ Spec => []Apart({"charge"}, {"notify"})
      /\ Spec => []Apart({"confirm"}, Repayers)
      /\ Spec => []Apart(Repayers, Visits)
      /\ Spec => []Apart({"refund"}, {"refund"})
  BY <1>1, PTL
<1>4. Spec => [][Unclaimed]_vars
  BY <1>2, AlwaysSound, PTL DEF Spec
<1>5. QED
  BY <1>3, <1>4 DEF PaymentsApart, ReleasesApart, RefundsApart, Unclaimed
===============================================================================
