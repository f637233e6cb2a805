SPECIFICATION CacheSpec
CONSTANTS
  MaxChanges = 2
PROPERTY OlderResponseIsDiscarded
CHECK_DEADLOCK FALSE
