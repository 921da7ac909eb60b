SPECIFICATION Spec
CONSTANTS
  Videos = {gone, pattern}
  Gallery = {}
  TestPattern = pattern
  FirstVideo = gone
  SavedCamera = {TRUE, FALSE}
  FailLimit = 2
  FaultKinds = {}
  MaxFaults = 0
  Requests = {"camera", "power on", "power off"}
  MaxRequests = 2
  SlowAttach = FALSE
  MaxCrashes = 1
INVARIANTS
  AptSerialised
  PowerOffHolds
PROPERTIES
  ButtonKept
