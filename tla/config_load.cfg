CONSTANTS
  Procs      = {p1}
  Cmds       = {"launch", "rotate", "setup"}
  Files      <- AllFiles
  Values     <- AllValues
  Refs       = {"ref1"}
  Stamps     = {"s1", "s2"}
  EnvHeaders = ""
  MaxRuns    = 2
  Absent     = Absent
  NoKey      = NoKey
SPECIFICATION Spec
CHECK_DEADLOCK FALSE
INVARIANTS
  TypeOK
  LoadFaithful
  OriginalOnDisk
  LeavesCleanFile
  EditKeepsSettings
PROPERTY NewerSchemaUntouched
