\* A cancellation dies before its refund, which is then asked for again.
CONSTANTS
  Orders = {o1}
  Masters = {m1}
  Requests = {r1}
  o2 = o2
  NoOne = NoOne
  NoOrder = NoOrder
  Amount <- MCAmount
  Snapshot <- MCSnapshot
  Ops = {"charge", "notify", "claim", "depart", "cancel", "refund"}
  Channels = {"mock"}
  Crashes = TRUE
  MaxReturned = 0
SPECIFICATION Spec
INVARIANT RefundMatchesStage
CHECK_DEADLOCK FALSE
