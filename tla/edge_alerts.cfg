SPECIFICATION EdgeSpec
CONSTANTS
  VisionRules = {"zone", "count"}
  ZoneRules = {"zone"}
  CountRules = {"count"}
  AskRules = {}
  Ids = {1, 2}
  MaxRules = 1
  MaxListed = 1
  ReleaseChecks = 1
  Cooldown = 1
  Requests = {}
  Pictures = {{}, {"zone", "count"}}
  DetectEvery = 2
INVARIANTS
  EdgeTypeOK
PROPERTIES
  NoStaleZones
  RulesFollowPicture
