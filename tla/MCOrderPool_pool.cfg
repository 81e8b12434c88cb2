\* An order nobody has taken yet and one that a master serves who looks at the pool; a
\* second master to be approved. One call fails, one grab or change of a master.
CONSTANTS
  o1 = o1  o2 = o2  m1 = m1  m2 = m2
  p = p  c = c  d = d  q = q
  Orders = {o1, o2}
  Masters = {m1, m2}
  Code = {p, c, d, q}
  NoCode = NoCode
  NoOrder = NoOrder
  NoMaster = NoMaster
  Leaving = Leaving
  AddressOf <- MCAddress
  Skilled <- MCSkilled
  AppointmentOf <- MCAppointment
  OpenAreas <- MCOpen
  AreaChoices <- MCAreas
  InitialStatus <- MCStatus
  InitialAreas <- MCInitialAreas
  InitialHolder <- MCHolder
  Viewers = {m1}
  MaxFailures = 1
  MaxChanges = 1
SPECIFICATION FairSpec
INVARIANTS
  ListeningCovers
PROPERTIES
  HeardIsShown
  LateIsDispatched
CHECK_DEADLOCK FALSE
