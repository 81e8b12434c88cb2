\* Two refunds of one order at the same time.
CONSTANTS
  Orders = {o1}
  Masters = {m1}
  Requests = {r1, r2}
  o2 = o2
  NoOne = NoOne
  NoOrder = NoOrder
  Amount <- MCAmount
  Snapshot <- MCSnapshot
  Ops = {"charge", "notify", "refund"}
  Channels = {"mock"}
  Crashes = FALSE
  MaxReturned = 101
SPECIFICATION Spec
INVARIANT ReturnedAtMostPrice
CHECK_DEADLOCK FALSE
