\* A review dies between its row and the transition of its order.
CONSTANTS
  Orders = {o1}
  Masters = {m1}
  Requests = {r1}
  o2 = o2
  NoOne = NoOne
  NoOrder = NoOrder
  Amount <- MCAmount
  Snapshot <- MCSnapshot
  Ops = {"charge", "notify", "claim", "depart", "arriveCode", "arrive",
         "startService", "complete", "confirm", "review"}
  Channels = {"mock"}
  Crashes = TRUE
  MaxReturned = 0
SPECIFICATION Spec
INVARIANT ReviewedIsEvaluated
CHECK_DEADLOCK FALSE
