\* Two requests at the desk or on the platform, in any order; requests die. The
\* customer gets money back by cancelling.
CONSTANTS
  Orders = {o1}
  Masters = {m1}
  Requests = {r1, r2}
  Complaints = {c1}
  o1 = o1
  c1 = c1
  NoOne = NoOne
  NoOrder = NoOrder
  Rows = 2
  Amount <- MCAmount
  Snapshot <- MCSnapshot
  ComplaintOf <- MCComplaintOf
  Ops <- MCOps
  Channels = {"mock", "wechat"}
  Crashes = TRUE
  MaxReturned = 60
SYMMETRY MCSymmetry
SPECIFICATION MCSpec
INVARIANTS
  ApprovedWasReturned
  RefundResultBacked
  OpenRequestsBounded
PROPERTIES
  ReviewCloses
CHECK_DEADLOCK FALSE
