SPECIFICATION Spec
CONSTANTS
  Videos = {pattern}
  Gallery = {}
  TestPattern = pattern
  FirstVideo = pattern
  SavedCamera = {TRUE}
  FailLimit = 2
  FaultKinds = {"stall", "drop", "apt"}
  MaxFaults = 1
  Requests = {"camera", "path"}
  MaxRequests = 1
  SlowAttach = FALSE
  MaxCrashes = 0
INVARIANTS
  TypeOK
PROPERTIES
  StreamResumes
  StallRecovers
