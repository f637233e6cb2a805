SPECIFICATION FocusSpec
CONSTANTS
  Discoverers = {1, 2, 3}
  MaxEntries = 3
  Callers = {1, 2, 3}
  PullRequest <- SharedPullRequest
  Skips = {3}
  Poisoned = {2}
  BatchSize = 2
  Attempts = 2
  Impatient = {1}
  Contended = {0}
  MaxRivals = 1
  TargetCount = 2
  Signalled = {1}
  PageSize = 1
  MaxPushes = 2
  MaxDisturbances = 1
  MaxChanges = 2
  Items = {1, 2, 3}
  Versions <- TimedVersions
  Fetchers = {1, 2}
  PerPage = 1
  MaxEdits = 3
  MaxRuns = 3
INVARIANTS OneDiscovery BlameIsLocal SuccessIsOwn
  CompletionCoversTargets CollectionIsOneResponse
  ConfirmedListing
PROPERTIES EveryCallerIsAnswered ReconciliationCompletes RefreshConverges ChangesAreEmitted
CHECK_DEADLOCK FALSE
