SPECIFICATION FocusSpec
CONSTANTS
  Entities = {1, 2}
  Bound = 8
  Pulls = {1, 2, 3}
  OverlapPasses = TRUE
  Listings = {{1, 2}, {1, 2, 3}}
  PageSize = 2
  MaxEdits = 1
  Repos = {1, 2}
  Onboarded = {2}
  PullRequests = {1, 2}
  InitialPulls = {{1}, {1, 2}}
  MaxPullEdits = 1
  BackfillPageSize = 1
  MaxUnrecorded = 2
  Sources = {1, 2}
  Unhealable = {2}
  Targets = {1}
  SampleSize = 1
  MaxChanges = 2
  MaxFaults = 2
  MaxPassFaults = 1
INVARIANTS WithinStalenessBound SweepSeesStableEntities BackfillIsComplete
PROPERTIES SweepsConverge BackfillFinishes FindingsAreReal DriftIsMeasured
CHECK_DEADLOCK FALSE
