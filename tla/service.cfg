SPECIFICATION Spec
CONSTANTS
  Variants = {"plain"}
  Plain = "plain"
  MaxGen = 2
  MaxFaults = 1
  Guids = {g1, g2}
  Hints = {g1, g2}
  Rejected = {g2}
  Dispatchers = {d1, d2}
  BatchSize = 2
  MaxAttempts = 2
  MaxUpsets = 1
  c1 = c1
  c2 = c2
  c3 = c3
  Mint = mint
INVARIANT AckedIsReplayable
PROPERTIES AckedIsServed EveryCallReturns
CHECK_DEADLOCK FALSE
