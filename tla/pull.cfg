SPECIFICATION FairPullSpec
CONSTANTS
  Variants = {"plain"}
  Plain = "plain"
  MaxGen = 3
  MaxFaults = 1
  MaxPageFaults = 1
  MaxRemote = 2
  MaxTries = 3
  Memberships = 1
  Stamp <- StepStamp
INVARIANT QuiescentIsFresh
PROPERTIES CacheNeverRegresses SignalsReachTheRow
CONSTRAINT MembershipBound
CHECK_DEADLOCK FALSE
