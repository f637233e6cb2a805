SPECIFICATION Spec
CONSTANTS
  Runtimes = {r1, r2}
  Nobody = Nobody
  TTL = 1
  RetryAfter = {1}
  MaxInFlight = 1
  Jobs = {j1, j2}
  PageSize = 1
  MaxPages = 2
  MaxId = 3
  MaxLate = 1
  MaxLost = 1
  MaxOld = 1
  MaxTokens = 2
  MaxGapFaults = 1
  c1 = c1
  c2 = c2
  c3 = c3
  Mint = mint
  Calls <- GateCalls
  ClassOf <- GateClasses
  PoolOf <- GatePools
  FloorOf <- GateFloors
  MaxConcurrent = 2
  Limit = 3
  MaxGateFaults = 1
SYMMETRY Symmetry
CONSTRAINT OneBackoff
INVARIANTS AdmitsOnlyAsOwner HonoursPersistedBackoff BoundaryCovers
PROPERTIES DeepPassCovers HeadroomKept
CHECK_DEADLOCK FALSE
