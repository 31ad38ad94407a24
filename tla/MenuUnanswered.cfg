CONSTANTS
  Attempts = 2
  Endpoint = {n0, n1}
  First = n0
  Arrives = {"ring"}
  MaxKeys = 3
SPECIFICATION MenuSpec
CHECK_DEADLOCK FALSE
PROPERTY MenuKeepsCaller
