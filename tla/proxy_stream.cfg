CONSTANTS
  HugeBudget = 0
  ClaudeIds  <- MCClaudeIds
  FileIds    = {f1}
  NoData     = NoData
  Requests   = {r1, r2}
  Cfg        <- MCCfg
  Bodies     <- OneBody
  Data       = {d1}
  MaxGen     = 1
  MaxChunks  = 2
SPECIFICATION Spec
CHECK_DEADLOCK FALSE
INVARIANTS
  NoFalseDisconnect
PROPERTIES
  DrainLosesNothing
  StatusWrittenOnce
SYMMETRY Requesters
