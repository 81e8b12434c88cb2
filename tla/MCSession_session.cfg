\* One tab, three portals of which the cookie holds two, two requests at once.
CONSTANTS
  Roles = {customer, master, admin}
  Tabs = {t1}
  Calls = {k1, k2}
  Login = Login
  None = None
  Fits <- MCFits
  Numbers <- MCNumbers
  MaxActs = 3
  MaxTicks = 2
SPECIFICATION FairSpec
PROPERTIES
  RequestsEnd
  PageSettles
CHECK_DEADLOCK FALSE
