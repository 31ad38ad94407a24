CONSTANTS
  N = 2
  Endpoint = {p, q}
  Notifier = {n}
  Limit = 1
  MaxAttempts = 2
  MaxCrashes = 1
  None = None
SPECIFICATION FairSpec
PROPERTY Settles
