CONSTANTS
  None = None
  Emp = {e1}
  Far = {f1}
  Caller = {}
  Hanger = {h1}
  Host <- MCHost
  Home <- MCHome
  MaxFaults = 0
  MaxCrashes = 0
  MaxDrops = 0
  FirstEmp = e1
  HeadFar = f1
SPECIFICATION FairSpec
CHECK_DEADLOCK FALSE
PROPERTIES NoSilence Resolves
