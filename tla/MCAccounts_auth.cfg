\* Two requests at a time for a phone without and one with an account, either SMS mode,
\* one code; the lock at two failures.
CONSTANTS
  new = new  old = old  r1 = r1  r2 = r2  good = good
  Phones = {new, old}
  Requests = {r1, r2}
  Modes = {"mock", "real"}
  Passwords = {good, bad}
  NoHash = NoHash
  Roles = {"customer", "master"}
  MaxFailures = 2
  NoUser = NoUser
  NoCode = NoCode
  Initial <- MCInitial
  Codes = {1}
  MaxTries = 4
SYMMETRY MCSymmetry
SPECIFICATION Spec
INVARIANTS
  CodeUsesBounded
  MasterComplete
  LockComes
CHECK_DEADLOCK FALSE
