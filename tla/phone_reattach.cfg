SPECIFICATION Spec
CONSTANTS
  Videos = {pattern}
  Gallery = {}
  TestPattern = pattern
  FirstVideo = pattern
  SavedCamera = {FALSE}
  FailLimit = 1
  FaultKinds = {"ghost", "crash"}
  MaxFaults = 1
  Requests = {"power on", "power off"}
  MaxRequests = 1
  SlowAttach = TRUE
  MaxCrashes = 0
INVARIANTS
  CellResetSafe
PROPERTIES
  OpsFinish
  RoutesConverge
  ButtonKept
