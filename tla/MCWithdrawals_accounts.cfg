\* m1 asks once at a time, m2 also twice; administrators and reconcile beside them.
CONSTANTS
  Masters = {m1, m2}
  NoMaster = NoMaster
  MaxRequests = 2
  MaxSlips = 3
  Asked <- MCAsked
  Earnings = {2}
  MaxCredited = 2
  OneAtATime = {m1}
SPECIFICATION FairSpec
INVARIANTS
  OutstandingCovered
  OverdraftBounded
PROPERTIES
  SlipFinal
  OverdraftNoticed
