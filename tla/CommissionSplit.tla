--------------------------- MODULE CommissionSplit ---------------------------
(***************************************************************************)
(* How the amount of an order is divided (split.util, tier.util, money).    *)
(* Amounts are integers of cents, rates and ratios are basis points, so     *)
(* that rounding to two decimals is rounding to an integer of cents.        *)
(***************************************************************************)
EXTENDS Integers, Sequences, FiniteSetsExt, OrderStatusFlow

Bp == 10000                       \* the ratio 1

\* The six states a paid order can be cancelled in, in the order of a visit.
CANCELLABLE_LIFECYCLE ==
  << "pending_accept", "accepted", "departing", "arrived", "servicing",
     "pending_confirm" >>

RefundPolicies == {"full", "tiered", "keep_commission"}

\* A commission snapshot as stored with the order: refundTiers is defined on the
\* statuses an operator configured, its values need not lie in [0, 1].
IsSnapshot(snap) ==
  /\ snap.platformRate \in 0..Bp
  /\ snap.refundPolicy \in RefundPolicies
  /\ DOMAIN snap.refundTiers \subseteq OrderStatus
  /\ \A s \in DOMAIN snap.refundTiers : snap.refundTiers[s] \in Int

clamp01(n) == IF n < 0 THEN 0 ELSE IF n > Bp THEN Bp ELSE n

DEFAULT_TIERS ==
  [s \in {"departing", "arrived"} |-> IF s = "departing" THEN 8000 ELSE 5000]

\* Reading a snapshot back: clamp every ratio, no tier at all means the default.
normalizeTiers(raw) ==
  IF DOMAIN raw = {} THEN DEFAULT_TIERS
  ELSE [s \in DOMAIN raw |-> clamp01(raw[s])]

min2(a, b) == IF a <= b THEN a ELSE b

\* Product of an amount and a ratio, rounded half up to the cent.
mul2(a, ratio) == (a * ratio + Bp \div 2) \div Bp

\* Positions of the configured break points up to the given status.
BreakPoints(status, tiers) ==
  { i \in DOMAIN CANCELLABLE_LIFECYCLE :
      /\ CANCELLABLE_LIFECYCLE[i] \in DOMAIN tiers
      /\ \E j \in DOMAIN CANCELLABLE_LIFECYCLE :
           i <= j /\ CANCELLABLE_LIFECYCLE[j] = status }

\* The nearest break point at or before the status decides; everything else,
\* a status outside the life cycle included, is refunded in full.
resolveTierRatio(status, tiers) ==
  LET points == BreakPoints(status, tiers)
  IN  IF points = {} THEN Bp
      ELSE clamp01(tiers[CANCELLABLE_LIFECYCLE[Max(points)]])

refundRatio(status, snap) ==
  LET tier == resolveTierRatio(status, normalizeTiers(snap.refundTiers))
  IN  CASE snap.refundPolicy = "full"            -> Bp
        [] snap.refundPolicy = "keep_commission" ->
             clamp01(min2(tier, Bp - snap.platformRate))
        [] OTHER                                 -> tier

\* Accepted order: the platform's commission and the master's share.
splitNormal(amount, snap) ==
  LET fee == mul2(amount, snap.platformRate)
  IN  [platformFee |-> fee, masterAmount |-> amount - fee]

\* Refunded order: the customer's, the platform's and the master's part.
splitRefund(amount, status, snap) ==
  LET refund == mul2(amount, refundRatio(status, snap))
      keep   == amount - refund
      kept   == IF snap.refundPolicy = "keep_commission"
                THEN min2(keep, mul2(amount, snap.platformRate))
                ELSE mul2(keep, snap.platformRate)
  IN  [refundAmount |-> refund, platformKeep |-> kept,
       masterCompensation |-> keep - kept]

=============================================================================
