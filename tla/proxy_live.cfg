CONSTANTS
  HugeBudget = 0
  ClaudeIds  <- MCClaudeIds
  FileIds    = {f1}
  NoData     = NoData
  Requests   = {r1}
  Cfg        <- MCCfg
  Bodies     <- OneBody
  Data       = {d1}
  MaxGen     = 2
  MaxChunks  = 2
SPECIFICATION FairSpec
CHECK_DEADLOCK FALSE
PROPERTIES
  ImplementsRelay
  HandlersTerminate
