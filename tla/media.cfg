SPECIFICATION Spec
CONSTANTS
  Names = {n1}
  Uploads = {u1, u2}
  Limit = 2
  RuleLists = {"default", "r1"}
  DefaultRules = "default"
SYMMETRY Symmetry
INVARIANTS
  TypeOK
  VideosWhole
  RulesSurvive
PROPERTIES
  IntentSurvives
  StoreKept
