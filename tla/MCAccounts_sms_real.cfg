\* SMS sent for real: one request at a time.
CONSTANTS
  new = new  old = old  r1 = r1  r2 = r2  good = good
  Phones = {new, old}
  Requests = {r1}
  Modes = {"real"}
  Passwords = {good, bad}
  NoHash = NoHash
  Roles = {"customer", "master"}
  MaxFailures = 2
  NoUser = NoUser
  NoCode = NoCode
  Initial <- MCInitial
  Codes <- MCCodes
  MaxTries = 0
SPECIFICATION Spec
INVARIANTS
  NewestUsable
CHECK_DEADLOCK FALSE
