CONSTANTS
  None = None
  Emp = {e1, e2}
  Far = {f1}
  Caller = {k}
  Hanger = {}
  Host <- MCHost
  Home <- MCHome
  MaxFaults = 0
  MaxCrashes = 0
  MaxDrops = 0
  FirstDesk = e1
  Backup = {}
SPECIFICATION Spec
CHECK_DEADLOCK FALSE
PROPERTY ForwardKept
