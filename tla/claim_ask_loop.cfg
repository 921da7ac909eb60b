SPECIFICATION Spec
CONSTANTS
  VisionRules = {"zone"}
  AskRules = {"ask"}
  Ids = {i1, i2, i3, i4}
  MaxRules = 2
  MaxListed = 1
  ReleaseChecks = 1
  Cooldown = 1
  Requests = {"update"}
INVARIANTS
  AskLoopSurvives
