CONSTANTS
  N = 2
  Endpoint = {p, q}
  Notifier = {n}
  Limit = 2
  MaxAttempts = 2
  MaxCrashes = 1
  None = None
SPECIFICATION FairSpec
INVARIANTS TypeOK AttemptsBounded
PROPERTIES RetiredStays Settles
