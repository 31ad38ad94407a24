CONSTANTS
  None = None
  Emp = {e1, e2, b1}
  Far = {f1}
  Caller = {k}
  Hanger = {h1}
  Host <- MCHost
  Home <- MCHome
  MaxFaults = 0
  MaxCrashes = 0
  MaxDrops = 0
  FirstDesk = e1
  Backup = {b1}
SPECIFICATION FairSpec
CHECK_DEADLOCK FALSE
INVARIANTS NoOrphans BridgeNamesTalkers
PROPERTIES PromiseKept CallerKept CallerServed MessageKept
