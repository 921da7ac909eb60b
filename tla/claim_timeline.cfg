SPECIFICATION Spec
CONSTANTS
  Logs = {"ue"}
  Titles = {"up"}
  Window = 2
  Cap = 2
  MaxTime = 2
  MaxMade = 2
  MaxRestarts = 1
PROPERTY ShownInTheEnd
