\* A payment reported after the order was cancelled.
CONSTANTS
  Orders = {o1}
  Masters = {m1}
  Requests = {r1}
  o2 = o2
  NoOne = NoOne
  NoOrder = NoOrder
  Amount <- MCAmount
  Snapshot <- MCSnapshot
  Ops = {"charge", "notify", "cancel"}
  Channels = {"wechat"}
  Crashes = FALSE
  MaxReturned = 0
SPECIFICATION Spec
INVARIANT CancelledWithoutMoney
CHECK_DEADLOCK FALSE
