CONSTANTS
  Procs      = {p1, p2}
  Cmds       = {"launch", "rotate"}
  Files      <- CleanFiles
  Values     <- AllValues
  Refs       = {"ref1"}
  Stamps     = {"s1"}
  EnvHeaders = ""
  MaxRuns    = 2
  Absent     = Absent
  NoKey      = NoKey
SPECIFICATION Spec
CHECK_DEADLOCK FALSE
INVARIANT RotationSticks
