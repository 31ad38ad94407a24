CONSTANTS
  None = None
  Emp = {e1, b1}
  Far = {f1}
  Caller = {k}
  Hanger = {}
  Host <- MCHost
  Home <- MCHome
  MaxFaults = 1
  MaxCrashes = 1
  MaxDrops = 1
  FirstDesk = e1
  Backup = {b1}
SPECIFICATION Spec
CHECK_DEADLOCK FALSE
PROPERTY NoResurrection
