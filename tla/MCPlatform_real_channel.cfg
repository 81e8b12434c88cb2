\* An order is charged and paid at WeChat, which reports the payment for ever.
CONSTANTS
  Orders = {o1}
  Masters = {m1}
  Requests = {r1, r2}
  o2 = o2
  NoOne = NoOne
  NoOrder = NoOrder
  Amount <- MCAmount
  Snapshot <- MCSnapshot
  Ops = {"charge", "handleNotify", "cancel"}
  Channels = {"wechat"}
  Crashes = FALSE
  MaxReturned = 0
SPECIFICATION ReportingSpec
PROPERTY CapturedEntersPool
CHECK_DEADLOCK FALSE
