SPECIFICATION Spec
CONSTANTS
  Videos = {pattern}
  Gallery = {}
  TestPattern = pattern
  FirstVideo = pattern
  SavedCamera = {FALSE}
  FailLimit = 3
  FaultKinds = {}
  MaxFaults = 0
  Requests = {"camera"}
  MaxRequests = 2
  SlowAttach = TRUE
  MaxCrashes = 0
PROPERTY CameraOffStops
