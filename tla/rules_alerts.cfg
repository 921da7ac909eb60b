SPECIFICATION Spec
CONSTANTS
  VisionRules = {"zone"}
  AskRules = {"ask"}
  Ids = {i1, i2, i3, i4}
  MaxRules = 2
  MaxListed = 1
  ReleaseChecks = 2
  Cooldown = 2
  Requests = {"add", "update", "delete", "clear"}
SYMMETRY IdSymmetry
INVARIANTS
  TypeOK
  SnapshotsListed
  ReleasedInTime
PROPERTIES
  StaysActive
  CooldownRespected
