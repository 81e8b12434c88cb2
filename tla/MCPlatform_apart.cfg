\* Overlapping requests, but none that must not overlap a refund or a notification,
\* none dies, on an order with either rule: the money adds up.
CONSTANTS
  Orders = {o1, o2}
  Masters = {m1}
  Requests = {r1, r2, r3}
  o2 = o2
  NoOne = NoOne
  NoOrder = NoOrder
  Amount <- MCAmount
  Snapshot <- MCSnapshot
  Ops <- AllOps
  Channels = {"mock"}
  Crashes = FALSE
  MaxReturned = 101
SPECIFICATION ApartSpec
SYMMETRY MCSymmetry
INVARIANTS
  RefundMatchesStage
  ShownRefundIsReal
  EscrowRowIsPaid
  ReleasedNotReturned
CHECK_DEADLOCK FALSE
