SPECIFICATION RepoSpec
CONSTANTS
  Variants = {"plain", "head"}
  Plain = "plain"
  HeadObserving = "head"
  MaxGen = 3
  MaxFaults = 0
  MaxRemote = 2
  MaxMeta = 2
INVARIANT HeadConverges
CHECK_DEADLOCK FALSE
