\* A cancellation overlaps the arrival of the master.
CONSTANTS
  Orders = {o1}
  Masters = {m1}
  Requests = {r1, r2}
  o2 = o2
  NoOne = NoOne
  NoOrder = NoOrder
  Amount <- MCAmount
  Snapshot <- MCSnapshot
  Ops = {"charge", "notify", "claim", "depart", "arriveCode", "arrive", "cancel"}
  Channels = {"mock"}
  Crashes = FALSE
  MaxReturned = 0
SPECIFICATION Spec
INVARIANT RefundMatchesStage
CHECK_DEADLOCK FALSE
