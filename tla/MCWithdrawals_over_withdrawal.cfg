\* Counterexample: two requests pass the same balance.
CONSTANTS
  Masters = {m1}
  NoMaster = NoMaster
  MaxRequests = 2
  MaxSlips = 2
  Asked <- MCAsked
  Earnings = {1, 2}
  MaxCredited = 2
  OneAtATime = {}
SPECIFICATION Spec
INVARIANTS
  NeverOverdrawn
