SPECIFICATION SweepSpec
CONSTANTS
  Pulls = {1, 2, 3}
  PageSize = 2
  OverlapPasses = TRUE
  Listings = {{1, 2}, {1, 2, 3}}
  MaxEdits = 0
  MaxFaults = 0
INVARIANT OverlapPassIsScheduled
CHECK_DEADLOCK FALSE
