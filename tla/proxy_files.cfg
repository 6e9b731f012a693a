CONSTANTS
  HugeBudget = 0
  ClaudeIds  <- MCClaudeIds
  FileIds    = {f1, f2}
  NoData     = NoData
  Requests   = {r1, r2, r3}
  Cfg        <- MCCfg
  Bodies     <- MCBodies
  Data       = {d1, d2}
  MaxGen     = 2
  MaxChunks  = 0
SPECIFICATION Spec
CHECK_DEADLOCK FALSE
INVARIANTS
  GaugeExact
  SubstitutionFaithful
PROPERTY ImplementsFileStore
SYMMETRY Symmetry
CONSTRAINT UntilDispatch
