\* A refund asked for while the customer confirms.
CONSTANTS
  Orders = {o1}
  Masters = {m1}
  Requests = {r1, r2}
  o2 = o2
  NoOne = NoOne
  NoOrder = NoOrder
  Amount <- MCAmount
  Snapshot <- MCSnapshot
  Ops = {"charge", "notify", "claim", "depart", "arriveCode", "arrive", "startService", "complete", "confirm", "refund"}
  Channels = {"mock"}
  Crashes = FALSE
  MaxReturned = 0
SPECIFICATION Spec
INVARIANT ReleasedNotReturned
CHECK_DEADLOCK FALSE
