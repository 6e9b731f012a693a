CONSTANTS
  Procs      = {p1}
  MaxVersion = 4
  Tags      <- MCTags
  MaxRuns    = 3
  Interval   = 2
  MaxTime    = 3
SPECIFICATION Spec
CHECK_DEADLOCK FALSE
INVARIANTS
  InstalledVerified
  InstallSurvives
  UpdatesGoUp
PROPERTIES
  QuietForInterval
