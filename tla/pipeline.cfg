CONSTANTS
  HugeBudget <- MCHugeBudget
  ClaudeIds  <- MCClaudeIds
  FileIds    <- MCFileIds
  NoData     = NoData
  Inputs     <- MCInputs
SPECIFICATION PipelineSpec
CHECK_DEADLOCK FALSE
INVARIANTS
  NoToolMachinery
  ContentConserved
  EffortCoherent
  ShadowedTiersAreDead
