SPECIFICATION FocusSpec
CONSTANTS
  Variants = {"plain", "head"}
  Plain = "plain"
  HeadObserving = "head"
  MaxGen = 3
  MaxFaults = 1
  MaxRemote = 1
  MaxMeta = 2
  Stacks = {11, 12}
  PullRequests = {1, 2}
  Pushed = {1}
  Hideable = {11}
  Layouts <- StackLayouts
  MaxMoves = 2
  MaxEvents = 1
  Workers = 2
INVARIANTS ConfirmedIsCurrent FollowupsComplete
PROPERTIES
  OutstandingLosesWorkOnlyByDiscard
  CompletionCoversOnlyItsSnapshot
  EverySignalCompletes
CHECK_DEADLOCK FALSE
