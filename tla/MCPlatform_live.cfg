\* Overlapping requests that do not die: refunds, payments and reviews complete,
\* the pages lead on.
CONSTANTS
  Orders = {o1}
  Masters = {m1}
  Requests = {r1, r2}
  o2 = o2
  NoOne = NoOne
  NoOrder = NoOrder
  Amount <- MCAmount
  Snapshot <- MCSnapshot
  Ops <- AllOps
  Channels = {"mock"}
  Crashes = FALSE
  MaxReturned = 0
SPECIFICATION FairSpec
INVARIANT
  PagesLeadOn
PROPERTIES
  RefundCompletes
  ReviewEvaluates
CHECK_DEADLOCK FALSE
