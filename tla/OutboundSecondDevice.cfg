CONSTANTS
  None = None
  Emp = {e1, e2}
  Far = {f1}
  Caller = {}
  Hanger = {}
  Host <- MCHost
  Home <- MCHome
  MaxFaults = 0
  MaxCrashes = 0
  MaxDrops = 0
  FirstEmp = e1
  HeadFar = f1
SPECIFICATION Spec
CHECK_DEADLOCK FALSE
INVARIANT AnswererTakesCall
