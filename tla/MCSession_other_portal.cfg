\* One tab, two portals: the session of one of them ends.
CONSTANTS
  Roles = {customer, master}
  Tabs = {t1}
  Calls = {k1, k2}
  Login = Login
  None = None
  Fits <- MCFitsAll
  Numbers <- MCNumbers
  MaxActs = 3
  MaxTicks = 2
SPECIFICATION Spec
PROPERTIES
  OtherPortalsKept
CHECK_DEADLOCK FALSE
