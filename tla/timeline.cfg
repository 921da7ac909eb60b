SPECIFICATION Spec
CONSTANTS
  Logs = {"ue", "amf"}
  Titles = {"up"}
  Window = 2
  Cap = 2
  MaxTime = 2
  MaxMade = 3
  MaxRestarts = 1
INVARIANTS
  TypeOK
  NoRepeats
  NoneLost
PROPERTIES
  FeedKept
  CatchesUp
