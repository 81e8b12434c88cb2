\* Two requests of one customer, an administrator with one edit of anything.
CONSTANTS
  c1 = c1  c2 = c2  c3 = c3  i1 = i1
  r1 = r1  r2 = r2  ann = ann
  low = low  high = high
  Codes = {1}
  Nodes <- MCNodes
  Categories = {c1, c2, c3}
  Items = {i1}
  Rates = {low, high}
  DefaultTerms = DefaultTerms
  NoCategory = NoCategory
  NoRule = NoRule
  Admins = {admin}
  MaxDepth = 2
  MaxEdits = 1
  Requests = {r1, r2}
  CustomerOf <- MCCustomer
  AddressOf <- MCAddress
  Slots = {}
  NoSlot = NoSlot
  Ids <- MCIds
  NoOrder = NoOrder
  InitialArea <- MCArea
  InitialCategory <- MCCategory
  InitialItem <- MCItem
  InitialRule <- MCRule
SYMMETRY MCSymmetry
SPECIFICATION Spec
INVARIANTS
  ResolveNearest
  DuplicatesBounded
PROPERTIES
  BranchCloses
CHECK_DEADLOCK FALSE
