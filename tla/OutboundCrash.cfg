CONSTANTS
  None = None
  Emp = {e1, e2}
  Far = {f1}
  Caller = {}
  Hanger = {}
  Host <- MCHost
  Home <- MCHome
  MaxFaults = 1
  MaxCrashes = 1
  MaxDrops = 1
  FirstEmp = e1
  HeadFar = f1
SPECIFICATION Spec
CHECK_DEADLOCK FALSE
INVARIANTS TypeOK EmployeeFirst AnsweredByBoth
PROPERTIES TalkersKept FarDialedOnce PromiseKept
