SPECIFICATION Spec
CONSTANTS
  Videos = {pattern}
  Gallery = {}
  TestPattern = pattern
  FirstVideo = pattern
  SavedCamera = {FALSE}
  FailLimit = 3
  FaultKinds = {"stall"}
  MaxFaults = 1
  Requests = {"power off"}
  MaxRequests = 1
  SlowAttach = TRUE
  MaxCrashes = 0
PROPERTY ReattachOnlyWhenOn
