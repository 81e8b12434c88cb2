\* A second charge overlaps the notification of the first.
CONSTANTS
  Orders = {o1}
  Masters = {m1}
  Requests = {r1, r2}
  o2 = o2
  NoOne = NoOne
  NoOrder = NoOrder
  Amount <- MCAmount
  Snapshot <- MCSnapshot
  Ops = {"charge", "notify"}
  Channels = {"mock"}
  Crashes = FALSE
  MaxReturned = 0
SPECIFICATION Spec
INVARIANT EscrowRowIsPaid
CHECK_DEADLOCK FALSE
