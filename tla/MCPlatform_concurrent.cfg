\* Two overlapping requests on one order, every handler, crashes anywhere.
CONSTANTS
  Orders = {o1}
  Masters = {m1, m2}
  Requests = {r1, r2}
  o2 = o2
  NoOne = NoOne
  NoOrder = NoOrder
  Amount <- MCAmount
  Snapshot <- MCSnapshot
  Ops <- AllOps
  Channels = {"mock", "wechat"}
  Crashes = TRUE
  MaxReturned = 60
SPECIFICATION Spec
CONSTRAINT Unmixed
SYMMETRY MCSymmetry
INVARIANTS
  TypeOK
  LedgerConsistent
  RefundedWasReturned
PROPERTIES
  StatusFollowsFlow
  MasterKept
  SettlementFinal
  ContractSpec
CHECK_DEADLOCK FALSE
